---------------------------- MODULE Spec2Model ----------------------------
(***************************************************************************)
(* A model of the event-correlation core of osmonitor:                     *)
(*   - the Event Sink (MacOSUIMonitor._add_event and the free-function     *)
(*     twin event_handling.add_event), fed by the source-monitor threads;  *)
(*   - the UI-State Tracker (MacOSUIMonitor._update_ui_state);             *)
(*   - the Frontmost-App Resolver (get_frontmost_app_info).                *)
(* Files are modelled as sequences of tokens, the history as the sequence  *)
(* of event ids in the order they were appended.                           *)
(***************************************************************************)
EXTENDS Integers, Sequences, FiniteSets, TLC

(***************************************************************************)
(* Bounds of the exploration.                                              *)
(***************************************************************************)
MaxHist == 2
MaxEvents == 3
MaxSinkEvents == 2
MaxPolls == 2
MaxSamples == 4
MaxKeys == 3
MaxTime == 5
MaxCallbacks == 3
MaxOut == 3
MaxRestarts == 1
MaxLockRuns == 1
MaxLockEvents == 1
MaxIters == 2
MaxClicks == 4
MaxCount == 2
MaxQueries == 2
MaxQueryPolls == 2
SelectionInterval == 1
ChangeThreshold == 3

\* history_size when the caller gives none (monitor.py:32).
DefaultHistory == 100

\* The mouse loop sleeps 0.05 s between samples (mouse_monitor.py:137) and
\* skips a pressed button until more than 0.1 s after the last click
\* (mouse_monitor.py:91); in ms.
SampleSleepMs == 50
ClickTimeoutMs == 100

(***************************************************************************)
(* The source-monitor threads that call the sink, and the event type each  *)
(* one produces (mouse_monitor.py:108-131, keyboard_monitor.py).           *)
(***************************************************************************)
Threads == {"mouse", "kbd"}

EventTypeOf(t) == IF t = "mouse" THEN "click" ELSE "key_press"

\* What the click's element lookup gave (mouse_monitor.py:103-127): no
\* element, or the dict of an element (with a title).
Elements == {"none", "titled"}

VARIABLES
    \* ---- configuration, fixed by __init__ ----
    history_size,        \* self.history_size
    take_screenshots,    \* self.take_screenshots
    screenshot_dir,      \* self.screenshot_dir is set (TRUE) or None (FALSE)
    output_file,         \* self.output_file is set
    timeline_file,       \* self.timeline_file is set
    timeline_format,     \* "json" or "csv"
    impl,                \* "method": MacOSUIMonitor._add_event;
                         \* "function": event_handling.add_event
    \* ---- sink state ----
    ui_events,           \* self.ui_events, as event ids
    ev,                  \* the event objects, by id
    n_accepted,          \* events appended so far; ids are arrival numbers
    screenshot_counter,  \* self.screenshot_counter
    rawlog,              \* content of output_file, one entry per line written
    timeline,            \* content of timeline_file, as tokens
    timeline_entry_count,\* self.timeline_entry_count
    timers,              \* click events for which a re-poll Timer was started
    \* ---- threads ----
    pc,                  \* per thread, its place in _add_event
    cur,                 \* per thread, the event it is processing
    prefix,              \* per thread, the local `prefix` of _write_to_timeline
    lifecycle,           \* "new", "running", "closing", "stopped"
    budget,              \* events the run may accept (a bound)
    \* ---- what happened to the event a thread handled last (observed,
    \*      never read by the code; reset when the thread accepts again) ----
    invoked,             \* the callbacks called for it, in order
    cap_ok,              \* the screen capture primitive succeeded for it
    persist_failed,      \* a log, timeline or screenshot write failed for it
    cb_raised,           \* one of its callbacks raised
    \* ---- tracked state of the UI-State Tracker (monitor.py:61-64) ----
    current_app_pid,     \* self.current_app_pid; 0 is None
    current_app,         \* self.current_app: the pid its handle was made
                         \* for; 0 is None
    current_window,      \* self.current_window: a window handle or "None"
    current_element,     \* self.current_element: an element handle or "None"
    \* ---- the desktop, as the OS would report it ----
    os_front_pid,        \* pid of the frontmost application
    os_front_win,        \* first window of the application's window list
    os_focus,            \* the focused element
    os_attrs,            \* per handle, the attributes read from it now
    \* ---- the polls (observed) ----
    polls,               \* polls run so far (bounded)
    last_obs,            \* what the last poll was told by its queries
    repeated,            \* the last poll was told the same as the one before
    emitted,             \* the events the last poll emitted, in order
    \* ---- one call of the Frontmost-App Resolver ----
    res_outs,            \* what each of the four strategies does
    res_cached,          \* self_obj.current_app_pid; 0 is None
    res_result,          \* the record returned
    res_done,            \* the call has been made
    \* ---- the shared lock and the threads that run _update_ui_state ----
    lock_owner,          \* the thread holding self._lock, or "none"
    upc,                 \* per tracker thread: "idle", "wait" (called, not
                         \* yet in the with block), "body" (inside it)
    fired,               \* clicks whose Timer has called _update_ui_state
    \* ---- the mouse monitor (mouse_monitor.py:58-137) ----
    m_buttons,           \* the buttons pressed now, as the OS reports them
    m_elapsed,           \* current_time - prev_click_time at the last sample,
                         \* in ms, capped just above the timeout
    samples,             \* samples taken so far (bounded)
    m_cur,               \* a button was pressed at the last sample (observed)
    m_prev,              \* ... at the sample before it (observed)
    m_emitted,           \* the last sample emitted a click (observed)
    press_clicks,        \* clicks emitted since a sample last saw no button
    m_gap,               \* current_time - prev_click_time at the last sample
    \* ---- the keyboard monitor (keyboard_monitor.py) ----
    k_mech,              \* the mechanism start() set up: "pynput" or "tap"
    modifier_state,      \* self.modifier_state
    keys,                \* keyboard events handled so far (bounded)
    k_prev,              \* modifier_state before the last handler (observed)
    k_seen,              \* the modifier set that handler observed
    k_out,               \* the events that handler emitted, in order
    \* ---- the text-selection monitor (text_selection.py) ----
    s_running,           \* TextSelectionMonitor.running
    last_selection,      \* self.last_selection, "" for None
    s_pc,                \* per _monitor_selection thread: none, sleeping, done
    s_wake,              \* per thread: when its time.sleep(interval) ends
    last_selection_time, \* per thread: the local last_selection_time
    clock,               \* time.time(), in seconds
    s_events,            \* text and timestamp of the last two events emitted
    \* ---- calls of library functions on given inputs ----
    id_in,               \* object_id: the attributes of two elements
    id_out,              \* object_id: the texts hashed for the first element,
                         \* the second, and the first once more
    \* ---- the callback registry as consumers fill it ----
    registry,            \* self.callbacks
    reg_count,           \* add_callback calls so far; the n-th callback is n
    reg_before,          \* self.callbacks before the last add_callback
    reg_arg,             \* the event type of the last add_callback, "" if none
    reg_raised,          \* an add_callback raised
    reg_rejected,        \* callbacks given with a type not in the registry
    reg_called,          \* callbacks _notify_callbacks has called
    \* ---- MacOSUIMonitor.start() and the keyboard mechanisms ----
    kb_avail,            \* the keyboard mechanisms that can be installed here
    kb_tried,            \* the setups KeyboardMonitor.start() attempted
    start_done,          \* MacOSUIMonitor.start() has returned
    \* ---- the event tap's decoding of a key-down ----
    kd_in,               \* the keycode and characters of the CGEvent, and
                         \* whether a key log file is set
    kd_event,            \* key_name of the key_press event handed to the sink
    kd_row,              \* the key column of the row written to the key log
    \* ---- run_apple_script on a given outcome of osascript ----
    as_in,               \* which copy is called, how osascript ends, its stdout
    as_out,              \* what the call gave: raised, None or a text
    \* ---- start() and stop() and the loop threads they make ----
    running,             \* MacOSUIMonitor.running
    m_running,           \* MouseMonitor.running
    poll_th,             \* per polling thread: none, test, update, sleep, done
    mouse_th,            \* per mouse thread: none, test, body, done
    told,                \* threads alive when a stop() cleared their flag
    resumed,             \* threads told to stop that found the flag set again
    restarts,            \* start() calls made on a monitor that was stopped
    \* ---- the re-entrant lock, acquisition by acquisition ----
    rl_count,            \* recursion level of self._lock (0: free)
    rl_pc,               \* per thread: idle, wait, body, emit, accept, append
    rl_todo,             \* per tracker thread: events its run has yet to add
    rl_run,              \* per tracker thread: number of its current run
    rl_by,               \* per event id: the thread and run that appended it
    \* ---- the loop threads, iteration by iteration ----
    lp_flag,             \* per loop: the running flag its while tests
    lp_pc,               \* per loop thread: test, try, except, sleep, ended
    lp_iter,             \* per loop: iterations begun
    lp_caught,           \* per loop: exceptions its except clause caught
    lp_end,              \* per loop: why its thread ended (none, flag, raise)
    \* ---- the screenshot counter, statement by statement ----
    sc_pc,               \* per click thread: idle, enter, read, write, take
    sc_tmp,              \* per click thread: the value `+= 1` read
    sc_given,            \* the values of `counter`, in the order they were taken
    sc_clicks,           \* clicks accepted with capture enabled
    \* ---- the queries get_recent_events and get_current_state ----
    qr_in,               \* the last query: which one, and its arguments
    qr_events,           \* what get_recent_events returned: event ids
    qr_state,            \* what get_current_state returned
    qr_calls             \* queries made

cfgvars == <<history_size, take_screenshots, screenshot_dir, output_file,
             timeline_file, timeline_format, impl>>
sinkvars == <<ui_events, ev, n_accepted, screenshot_counter, rawlog, timeline,
              timeline_entry_count, timers>>
thrvars == <<pc, cur, prefix, lifecycle, budget>>
envvars == <<invoked, cap_ok, persist_failed, cb_raised>>
trkvars == <<current_app_pid, current_app, current_window, current_element,
             os_front_pid, os_front_win, os_focus, os_attrs,
             polls, last_obs, repeated, emitted>>
resvars == <<res_outs, res_cached, res_result, res_done>>
lockvars == <<lock_owner, upc, fired>>
mousevars == <<m_buttons, m_elapsed, samples, m_cur, m_prev, m_emitted,
               press_clicks, m_gap>>
kbdvars == <<k_mech, modifier_state, keys, k_prev, k_seen, k_out>>
selvars == <<s_running, last_selection, s_pc, s_wake, last_selection_time,
             clock, s_events>>
srcvars == <<mousevars, kbdvars, selvars>>
progvars == <<cfgvars, sinkvars, thrvars, envvars, trkvars, resvars, lockvars,
              srcvars>>
idvars == <<id_in, id_out>>
regvars == <<registry, reg_count, reg_before, reg_arg, reg_raised,
             reg_rejected, reg_called>>
startvars == <<kb_avail, kb_tried, start_done>>
kdvars == <<kd_in, kd_event, kd_row>>
asvars == <<as_in, as_out>>
lcvars == <<running, m_running, poll_th, mouse_th, told, resumed>>
rsvars == <<restarts>>
rlvars == <<rl_count, rl_pc, rl_todo, rl_run, rl_by>>
lpvars == <<lp_flag, lp_pc, lp_iter, lp_caught, lp_end>>
scvars == <<sc_pc, sc_tmp, sc_given, sc_clicks>>
qrvars == <<qr_in, qr_events, qr_state, qr_calls>>
libvars == <<idvars, regvars, startvars, kdvars, asvars, lcvars, rsvars,
              rlvars, lpvars, scvars, qrvars>>
idrest == <<regvars, startvars, kdvars, asvars, lcvars, rsvars, rlvars,
             lpvars, scvars, qrvars>>
regrest == <<idvars, startvars, kdvars, asvars, lcvars, rsvars, rlvars,
              lpvars, scvars, qrvars>>
startrest == <<idvars, regvars, kdvars, asvars, lcvars, rsvars, rlvars,
                lpvars, scvars, qrvars>>
kdrest == <<idvars, regvars, startvars, asvars, lcvars, rsvars, rlvars,
             lpvars, scvars, qrvars>>
asrest == <<idvars, regvars, startvars, kdvars, lcvars, rsvars, rlvars,
             lpvars, scvars, qrvars>>
lcrest == <<idvars, regvars, startvars, kdvars, asvars, rsvars, rlvars,
             lpvars, scvars, qrvars>>
rsrest == <<idvars, regvars, startvars, kdvars, asvars, lcvars, rlvars,
             lpvars, scvars, qrvars>>
rlrest == <<idvars, regvars, startvars, kdvars, asvars, lcvars, rsvars,
             lpvars, scvars, qrvars>>
lprest == <<idvars, regvars, startvars, kdvars, asvars, lcvars, rsvars,
             rlvars, scvars, qrvars>>
screst == <<idvars, regvars, startvars, kdvars, asvars, lcvars, rsvars,
             rlvars, lpvars, qrvars>>
shotrest == <<idvars, regvars, startvars, kdvars, asvars, lcvars, rsvars,
               lpvars, qrvars>>
qrrest == <<idvars, regvars, startvars, kdvars, asvars, lcvars, rsvars,
             rlvars, lpvars, scvars>>
vars == <<progvars, libvars>>

EventIds == 1..(MaxEvents + 3 * MaxPolls)

(***************************************************************************)
(* Sequence helpers.                                                       *)
(***************************************************************************)
Range(s) == {s[i] : i \in 1..Len(s)}

\* s[:n], the first n elements.
SliceFirst(s, n) ==
    IF n >= Len(s) THEN s ELSE SubSeq(s, 1, n)

\* Python's s[-n:] for a list s and an int n >= 0.  s[-0:] is s[0:], the
\* whole list.
SliceLast(s, n) ==
    IF n = 0 \/ n >= Len(s) THEN s
    ELSE SubSeq(s, Len(s) - n + 1, Len(s))

\* The last n elements of s, for n >= 0 (the mathematical notion).
LastN(s, n) ==
    IF n >= Len(s) THEN s ELSE SubSeq(s, Len(s) - n + 1, Len(s))

Arrivals(n) == [i \in 1..n |-> i]

(***************************************************************************)
(* History: append, then trim (monitor.py:247-251).                        *)
(***************************************************************************)
AppendTrim(h, e, n) ==
    LET h1 == Append(h, e)
    IN  IF Len(h1) > n THEN SliceLast(h1, n) ELSE h1

(***************************************************************************)
(* Timeline tokens.  "open" is the "[\n" written by __init__, "sep" the    *)
(* ",\n" written before a record, "sep_lit" a comma followed by the two    *)
(* characters backslash and n, "close" the "\n]\n" of stop(), "row" a CSV  *)
(* line, "hdr" the CSV header.                                             *)
(***************************************************************************)
Tok(k) == [k |-> k, id |-> 0]
Rec(i) == [k |-> "rec", id |-> i]
Row(i) == [k |-> "row", id |-> i]

\* The registry self.callbacks after the consumers registered theirs
\* (monitor.py:114-125, 151-156): two for click, one for key_press.
EventTypes ==
    {"click", "mouse_move", "scroll", "key_press", "key_release",
     "modifier_change", "focus_change", "app_change", "window_change",
     "text_selection"}

callbacks ==
    [ty \in EventTypes |->
        IF ty = "click" THEN <<"cb1", "cb2">>
        ELSE IF ty = "key_press" THEN <<"cb2">>
        ELSE <<>>]


NoEvent == [type |-> "none", elem |-> "none", shot |-> {}]

(***************************************************************************)
(* The line terminator and the record separator each implementation        *)
(* writes.  monitor.py:231,283 write "\n" and ",\n"; event_handling.py:96, *)
(* 205 spell them "\\n" and ",\\n" in ordinary string literals, which are  *)
(* a backslash followed by the letter n.                                   *)
(***************************************************************************)
Eol(im) == IF im = "method" THEN "newline" ELSE "backslash_n"

Sep(im) == IF im = "method" THEN "sep" ELSE "sep_lit"

(***************************************************************************)
(* Control flow of _add_event after each of its steps (monitor.py:253-295):*)
(* a step whose `if` is false is skipped.                                  *)
(***************************************************************************)
\* An except clause that lets the error out of _add_event.
TimelineErrorPropagates == "raised"

OnTimelineError == "notify"

AfterLog ==
    IF timeline_file
    THEN (IF timeline_format = "json" THEN "tl_prefix" ELSE "tl_csv")
    ELSE "notify"

OnLogError == AfterLog

AfterShot == IF output_file THEN "rawlog" ELSE AfterLog

AfterAppend(ty) ==
    IF ty = "click" /\ take_screenshots THEN "shot" ELSE AfterShot

(***************************************************************************)
(* capture_screenshot (screenshot.py:16-98): None without a directory or   *)
(* when anything in the capture fails, else the path of the file.  The     *)
(* element handed in by _add_event is the dict ElementInfo.to_dict() made, *)
(* and hasattr(dict, 'title') is false, so no title enters the name.       *)
(* The result is the set of paths returned: empty for None.                *)
(***************************************************************************)
TitleSegment(el) == ""

\* A capture that saves the file and forgets to return its path.
CaptureScreenshotNoReturn(dir, ok, el, counter) == {}

CaptureScreenshot(dir, ok, el, counter) ==
    IF ~dir THEN {}
    ELSE IF ~ok THEN {}
    ELSE {[counter |-> IF counter = 0 THEN 1 ELSE counter,
           title |-> TitleSegment(el)]}

(***************************************************************************)
(* _notify_callbacks (monitor.py:158-164): every callback of the list is   *)
(* called in order; one that raises is logged and the loop goes on.        *)
(* `raising` is the set of callbacks that raise on this call.  The result  *)
(* is the sequence of callbacks called and whether an exception left the   *)
(* function.                                                               *)
(***************************************************************************)
RECURSIVE NotifyFrom(_, _, _, _)
NotifyFrom(cbs, i, raising, called) ==
    IF i > Len(cbs) THEN [invoked |-> called, propagated |-> FALSE]
    ELSE NotifyFrom(cbs, i + 1, raising, Append(called, cbs[i]))

\* A loop without the try/except: the first exception ends it.
RECURSIVE NotifyFromUnguarded(_, _, _, _)
NotifyFromUnguarded(cbs, i, raising, called) ==
    IF i > Len(cbs) THEN [invoked |-> called, propagated |-> FALSE]
    ELSE IF cbs[i] \in raising
         THEN [invoked |-> Append(called, cbs[i]), propagated |-> TRUE]
         ELSE NotifyFromUnguarded(cbs, i + 1, raising, Append(called, cbs[i]))

NotifyCallbacksUnguarded(cbs, raising) ==
    NotifyFromUnguarded(cbs, 1, raising, <<>>)

NotifyCallbacks(cbs, raising) == NotifyFrom(cbs, 1, raising, <<>>)

(***************************************************************************)
(* The Frontmost-App Resolver (app_detection.py:12-150, and its copy       *)
(* monitor.py:311-442).  What a strategy does is an input: it raises,      *)
(* yields nothing usable, or reports a name and a pid.                     *)
(***************************************************************************)
Pids == {1, 2}

AppNames == {"Foo", "Bar"}

Strategies == 1..4

Failing ==
    {[st |-> x, pid |-> 0, name |-> ""] : x \in {"raise", "none"}}

Succeeding == {[st |-> "ok", pid |-> p, name |-> n] : p \in Pids, n \in AppNames}

Outcomes == Failing \cup Succeeding

\* The value None of the resolver.
NoApp == [name |-> "", pid |-> 0, bundle_id |-> "", method |-> "none"]

MethodOf(k) ==
    CASE k = 1 -> "NSWorkspace"
      [] k = 2 -> "AppleScript"
      [] k = 3 -> "lsappinfo"
      [] OTHER -> "ps"

\* Only the workspace query knows a bundle id (app_detection.py:29, 57).
BundleIdOf(k) == IF k = 1 THEN "bundle" ELSE ""

\* A resolver without the last resort.
FallbackNone(cached) == NoApp

\* A degraded record that names another pid than the tracked one.
FallbackOtherPid(cached) ==
    IF cached # 0
    THEN [name |-> "Unknown App", pid |-> CHOOSE p \in Pids : p # cached,
          bundle_id |-> "", method |-> "fallback"]
    ELSE NoApp

\* app_detection.py:141-150: the last known pid, if there is one.
Fallback(cached) ==
    IF cached # 0
    THEN [name |-> "Unknown App", pid |-> cached, bundle_id |-> "",
          method |-> "fallback"]
    ELSE NoApp

\* A chain in which an exception of a strategy is not caught: it ends the
\* chain and nothing is resolved.
RECURSIVE TryStrategiesUnguarded(_, _, _)
TryStrategiesUnguarded(outs, k, cached) ==
    IF k > 4 THEN Fallback(cached)
    ELSE IF outs[k].st = "raise" THEN NoApp
    ELSE IF outs[k].st = "ok"
         THEN [name |-> outs[k].name, pid |-> outs[k].pid,
               bundle_id |-> BundleIdOf(k), method |-> MethodOf(k)]
         ELSE TryStrategiesUnguarded(outs, k + 1, cached)

\* app_detection.py:21-139: strategy k and, if it fails, the next one.
RECURSIVE TryStrategies(_, _, _)
TryStrategies(outs, k, cached) ==
    IF k > 4 THEN Fallback(cached)
    ELSE IF outs[k].st = "ok"
         THEN [name |-> outs[k].name, pid |-> outs[k].pid,
               bundle_id |-> BundleIdOf(k), method |-> MethodOf(k)]
         ELSE TryStrategies(outs, k + 1, cached)

get_frontmost_app_info(outs, cached) == TryStrategies(outs, 1, cached)

ResolverIdle ==
    /\ res_outs = [k \in Strategies |-> [st |-> "none", pid |-> 0, name |-> ""]]
    /\ res_cached = 0
    /\ res_result = NoApp
    /\ res_done = FALSE

(***************************************************************************)
(* The accessibility tree, as far as the tracker reads it.  A handle keeps *)
(* pointing at its element; the attributes are read from it when asked.    *)
(***************************************************************************)
Windows == {"w1", "w2"}

FocusElems == {"e1", "e2"}

Titles == {"A", "B"}

Chars(title) == <<title>>

DigitStr == <<"0", "1", "2", "3", "4", "5", "6", "7", "8", "9">>

RECURSIVE Digits(_)
Digits(n) ==
    IF n < 10 THEN <<DigitStr[n + 1]>>
    ELSE Digits(n \div 10) \o <<DigitStr[(n % 10) + 1]>>

\* macos_accessibility.py:259-260: the f-string that is hashed, the five
\* values side by side with nothing between them.
HashInput(role, title, width, height, count_of_children) ==
    role \o title \o Digits(width) \o Digits(height)
        \o Digits(count_of_children)

\* macos_accessibility.py:245-265: the text that is hashed.  The hash is
\* taken to be injective on the texts that occur.
ObjectId(a) ==
    HashInput(Chars(a.role), Chars(a.title), a.width, a.height, a.children)

\* Synthetic elements for object_id: role and title as texts of characters
\* (a missing title is the empty text, macos_accessibility.py:249), sizes
\* and child counts as integers.
IdRoles == {<<"M">>, <<"M", "I">>}
IdTitles == {<<>>, <<"I">>, <<"1">>}
IdWidths == {2, 12}
IdHeights == {1, 6}
IdCounts == {0, 3}

IdElements ==
    [role : IdRoles, title : IdTitles, width : IdWidths, height : IdHeights,
     children : IdCounts]

IdOf(e) == HashInput(e.role, e.title, e.width, e.height, e.children)

IdentityIdle ==
    /\ id_in = <<>>
    /\ id_out = <<>>

\* monitor.py:113-125: every known event type with an empty list.
EmptyRegistry == [ty \in EventTypes |-> <<>>]

\* Event types a consumer may name that the registry does not have.
UnknownTypes == {"drag"}

\* An add_callback that makes a list for a type it does not know.
RegisterAny(reg, event_type, callback) ==
    [callbacks |-> [ty \in DOMAIN reg \cup {event_type} |->
                       IF ty = event_type
                       THEN (IF ty \in DOMAIN reg THEN reg[ty] ELSE <<>>)
                                \o <<callback>>
                       ELSE reg[ty]],
     raised |-> FALSE]

\* monitor.py:151-156: add_callback, on the registry.  The result is the
\* registry afterwards and whether the call raised.
Register(reg, event_type, callback) ==
    [callbacks |-> IF event_type \in DOMAIN reg
                   THEN [reg EXCEPT ![event_type] = Append(@, callback)]
                   ELSE reg,
     raised |-> FALSE]

\* monitor.py:160: self.callbacks.get(event.event_type, []).
CallbacksFor(reg, event_type) ==
    IF event_type \in DOMAIN reg THEN reg[event_type] ELSE <<>>

RegistryStart ==
    /\ registry = EmptyRegistry
    /\ reg_count = 0
    /\ reg_before = EmptyRegistry
    /\ reg_arg = ""
    /\ reg_raised = FALSE
    /\ reg_rejected = {}
    /\ reg_called = {}

Mechanisms == {"pynput", "tap"}

\* A start() that sets up the event tap whatever the listener did.
KeyboardStartBoth(avail) ==
    [mech |-> IF "tap" \in avail THEN "tap"
              ELSE IF "pynput" \in avail THEN "pynput" ELSE "none",
     tried |-> <<"pynput", "tap">>]

\* keyboard_monitor.py:419-443: KeyboardMonitor.start(); both setups catch
\* what goes wrong and return False (lines 67-283, 285-417).
KeyboardStartResult(avail) ==
    IF "pynput" \in avail
    THEN [mech |-> "pynput", tried |-> <<"pynput">>]
    ELSE [mech |-> IF "tap" \in avail THEN "tap" ELSE "none",
          tried |-> <<"pynput", "tap">>]

StartupIdle ==
    /\ kb_avail = {}
    /\ kb_tried = <<>>
    /\ start_done = FALSE

\* Keycodes of key-down events: those of KEY_CODE_MAP up to 12, and 10,
\* which the map does not have (key_mapping.py:8-21).
Keycodes == 0..12

KnownCodes == Keycodes \ {10}

KeyNames == <<"a", "s", "d", "f", "h", "g", "z", "x", "c", "v", "", "b", "q">>

\* A key text: a name or character, or the text "keycode <n>".
Name(s) == [kind |-> "name", s |-> s, n |-> 0]
KeycodeText(n) == [kind |-> "keycode", s |-> "", n |-> n]

\* keyboard_monitor.py:120: KEY_CODE_MAP.get(keycode, "").
KeyName(keycode) ==
    IF keycode \in KnownCodes THEN Name(KeyNames[keycode + 1]) ELSE Name("")

\* keyboard_monitor.py:136: char or key_name or f"keycode {keycode}".
KeyDisplay(char, key_name, keycode) ==
    IF char # "" THEN Name(char)
    ELSE IF key_name # Name("") THEN key_name
    ELSE KeycodeText(keycode)

NoKey == [kind |-> "none", s |-> "", n |-> 0]

KeyDecodeIdle ==
    /\ kd_in = [keycode |-> 0, char |-> "", log |-> FALSE]
    /\ kd_event = NoKey
    /\ kd_row = NoKey

\* What subprocess.run(['osascript', ...], timeout=1.0) can do: the script
\* exits with status 0 or another, the timeout expires, or osascript cannot
\* be started.
ScriptEnds == {"exit0", "nonzero", "timeout", "nostart"}

OutChars == {"t", " ", "\n"}

Whitespace == {" ", "\n"}

ScriptOutputs == UNION {[1..n -> OutChars] : n \in 0..MaxOut}

RECURSIVE LStrip(_)
LStrip(s) ==
    IF s # <<>> /\ Head(s) \in Whitespace THEN LStrip(Tail(s)) ELSE s

RECURSIVE RStrip(_)
RStrip(s) ==
    IF s # <<>> /\ s[Len(s)] \in Whitespace
    THEN RStrip(SubSeq(s, 1, Len(s) - 1))
    ELSE s

\* str.strip().
Strip(s) == RStrip(LStrip(s))

NoneResult == [raised |-> FALSE, none |-> TRUE, text |-> <<>>]
TextResult(s) == [raised |-> FALSE, none |-> FALSE, text |-> s]
RaisedResult == [raised |-> TRUE, none |-> FALSE, text |-> <<>>]
NotCalled == [raised |-> FALSE, none |-> FALSE, text |-> <<"?">>]

\* A run_apple_script without the try/except.
RunAppleScriptUnguarded(end, stdout) ==
    IF end \in {"timeout", "nostart"} THEN RaisedResult
    ELSE IF end = "exit0" THEN TextResult(Strip(stdout))
    ELSE NoneResult

\* app_detection.py:201-221 and its copy monitor.py:297-309.
RunAppleScript(end, stdout) ==
    IF end \in {"timeout", "nostart"} THEN NoneResult
    ELSE IF end = "exit0" THEN TextResult(Strip(stdout))
    ELSE NoneResult

AppleScriptIdle ==
    /\ as_in = [impl |-> "function", end |-> "exit0", stdout |-> <<>>]
    /\ as_out = NotCalled

\* The threads start() can make in a run: one polling thread and one
\* mouse thread per call (monitor.py:645, mouse_monitor.py:146).
LoopThreads == {1, 2}

Alive(th) == {i \in LoopThreads : th[i] \notin {"none", "done"}}

NextFree(th) ==
    {i \in LoopThreads :
        th[i] = "none" /\ \A j \in LoopThreads : j < i => th[j] # "none"}

\* monitor.py:670-671: join(timeout=1.0) on the polling thread.  A thread
\* at its test or in its sleep of polling_interval sees the cleared flag
\* and ends in time; one inside _update_ui_state, whose queries have
\* timeouts of 1.0 s each, may outlast the join.
JoinOutcomes(state) ==
    IF state = "update" THEN {"done", "update"}
    ELSE IF state = "none" THEN {"none"}
    ELSE {"done"}

\* monitor.py:112, mouse_monitor.py:24-36.
LifecycleStart ==
    /\ running = FALSE
    /\ m_running = FALSE
    /\ poll_th = [i \in LoopThreads |-> "none"]
    /\ mouse_th = [i \in LoopThreads |-> "none"]
    /\ told = {}
    /\ resumed = {}

\* self._lock is free and no thread is at it.
LockIdle ==
    /\ rl_count = 0
    /\ rl_pc = [th \in {"poller", "timer", "mouse", "kbd"} |-> "idle"]
    /\ rl_todo = [th \in {"poller", "timer"} |-> <<>>]
    /\ rl_run = [th \in {"poller", "timer"} |-> 0]
    /\ rl_by = [i \in EventIds |-> <<>>]

\* The three loop threads have just been started by start().
LoopsIdle ==
    /\ lp_flag = [l \in {"polling", "mouse", "selection"} |-> TRUE]
    /\ lp_pc = [l \in {"polling", "mouse", "selection"} |-> "test"]
    /\ lp_iter = [l \in {"polling", "mouse", "selection"} |-> 0]
    /\ lp_caught = [l \in {"polling", "mouse", "selection"} |-> 0]
    /\ lp_end = [l \in {"polling", "mouse", "selection"} |-> "none"]

\* No click has reached the screenshot block of _add_event.
ShotsIdle ==
    /\ sc_pc = [t \in {"mouse", "mouse2"} |-> "idle"]
    /\ sc_tmp = [t \in {"mouse", "mouse2"} |-> 0]
    /\ sc_given = <<>>
    /\ sc_clicks = 0

\* No query has been made.
QueriesIdle ==
    /\ qr_in = [op |-> "none", history |-> <<>>, given |-> FALSE, count |-> 0,
                event_type |-> "", level |-> 0]
    /\ qr_events = <<>>
    /\ qr_state = [name |-> "", id |-> 0, method |-> "", title |-> ""]
    /\ qr_calls = 0

\* Every library call but the one named is yet to be made.
LibIdleBut(k) ==
    /\ IF k = "qr" THEN TRUE ELSE QueriesIdle
    /\ IF k = "sc" THEN TRUE ELSE ShotsIdle
    /\ IF k = "lp" THEN TRUE ELSE LoopsIdle
    /\ IF k = "rl" THEN TRUE ELSE LockIdle
    /\ IF k = "rs" THEN TRUE ELSE restarts = 0
    /\ IF k = "lc" THEN TRUE ELSE LifecycleStart
    /\ IF k = "as" THEN TRUE ELSE AppleScriptIdle
    /\ IF k = "kd" THEN TRUE ELSE KeyDecodeIdle
    /\ IF k = "id" THEN TRUE ELSE IdentityIdle
    /\ IF k = "reg" THEN TRUE ELSE RegistryStart
    /\ IF k = "start" THEN TRUE ELSE StartupIdle

LibIdle == LibIdleBut("")

InitialAttrs ==
    [h \in Windows \cup FocusElems |->
        CASE h = "w1" -> [role |-> "W", title |-> "A", width |-> 8,
                          height |-> 6, children |-> 3]
          [] h = "w2" -> [role |-> "W", title |-> "B", width |-> 9,
                          height |-> 6, children |-> 3]
          [] h = "e1" -> [role |-> "T", title |-> "A", width |-> 2,
                          height |-> 1, children |-> 0]
          [] OTHER    -> [role |-> "T", title |-> "B", width |-> 2,
                          height |-> 1, children |-> 0]]

\* The title of an application's element is the application's name.
AppTitle(p) == IF p = 1 THEN "Foo" ELSE "Bar"

\* gui_apps.sort(); gui_apps[0] (app_detection.py:129-131).
LowestPid == CHOOSE p \in Pids : \A q \in Pids : p <= q

\* What the strategies do when the first `level - 1` of them fail and the
\* next one answers; level 5: all four fail.
StrategiesAt(level) ==
    [k \in Strategies |->
        IF k = level
        THEN [st |-> "ok",
              pid |-> IF k = 4 THEN LowestPid ELSE os_front_pid,
              name |-> AppTitle(IF k = 4 THEN LowestPid ELSE os_front_pid)]
        ELSE [st |-> "none", pid |-> 0, name |-> ""]]

NoObs ==
    [level |-> 0, ax_app |-> "", wins |-> "", focus |-> "",
     pid |-> 0, win |-> "", foc |-> "", attrs |-> InitialAttrs]

TrackerStart ==
    /\ current_app_pid = 0
    /\ current_app = 0
    /\ current_window = "None"
    /\ current_element = "None"
    /\ os_front_pid \in Pids
    /\ os_front_win \in Windows
    /\ os_focus \in FocusElems
    /\ os_attrs = InitialAttrs
    /\ polls = 0
    /\ last_obs = NoObs
    /\ repeated = FALSE
    /\ emitted = <<>>

\* A monitor whose tracker is not polled: the desktop does not matter.
TrackerIdle ==
    /\ current_app_pid = 0
    /\ current_app = 0
    /\ current_window = "None"
    /\ current_element = "None"
    /\ os_front_pid = 1
    /\ os_front_win = "w1"
    /\ os_focus = "e1"
    /\ os_attrs = InitialAttrs
    /\ polls = 0
    /\ last_obs = NoObs
    /\ repeated = FALSE
    /\ emitted = <<>>

(***************************************************************************)
(* self._lock = threading.RLock() (monitor.py:127-128) and the threads     *)
(* that run _update_ui_state: the polling loop (monitor.py:625-634) and    *)
(* the thread of a click's Timer whose delay has elapsed                   *)
(* (monitor.py:293-295).                                                   *)
(***************************************************************************)
TrackerThreads == {"poller", "timer"}

\* A lock that lets every caller in.
CanAcquireAlways(owner, th) == TRUE

\* A threading.Lock: taken only when it is free, whoever asks.
CanAcquireFree(owner, th) == owner = "none"

\* An RLock is taken when it is free or held by the caller already.
CanAcquire(owner, th) == owner = "none" \/ owner = th

(***************************************************************************)
(* The mouse monitor (mouse_monitor.py:58-137).  Time is kept as the       *)
(* difference current_time - prev_click_time in ms, capped one above the   *)
(* timeout: the code only asks whether it exceeds the timeout.             *)
(***************************************************************************)
Buttons == {"left", "right"}

ElapsedCap == ClickTimeoutMs + 1

\* What the rest of one loop iteration costs besides the sleep, in ms.
Overheads == {1, 10}

Min(a, b) == IF a <= b THEN a ELSE b

\* prev_click_time = 0 (mouse_monitor.py:61): the first press is far from it.
MouseStart ==
    /\ m_buttons = {}
    /\ m_elapsed = ElapsedCap
    /\ samples = 0
    /\ m_cur = FALSE
    /\ m_prev = FALSE
    /\ m_emitted = FALSE
    /\ press_clicks = 0
    /\ m_gap = ElapsedCap

\* A loop without the timeout: a sample emits whenever a button is down.
ClickDueAnyTime(buttons, elapsed) == buttons # {}

\* A sample emits whenever a button is down and the timeout has passed.
ClickDue(buttons, elapsed) == buttons # {} /\ elapsed > ClickTimeoutMs

(***************************************************************************)
(* The keyboard monitor (keyboard_monitor.py).  Three of the six modifiers *)
(* of self.modifier_state are kept: two that both mechanisms know and fn,  *)
(* which only the event tap reports.                                       *)
(***************************************************************************)
Mods == {"shift", "command", "fn"}

\* The keys a pynput callback is called with: a character key and the
\* modifier keys pynput names (keyboard_monitor.py:307-318).
PynputKeys == {"a", "shift", "cmd"}

\* The modifier a pynput key stands for, "" for any other key.
PynputModifier(key) ==
    CASE key = "shift" -> "shift"
      [] key = "cmd"   -> "command"
      [] OTHER         -> ""

AllReleased == [m \in Mods |-> FALSE]

\* keyboard_monitor.py:206-209: the modifiers whose value differs.
ChangedModifiers(old, new) == {m \in Mods : old[m] # new[m]}

\* keyboard_monitor.py:57-64.
KeyboardStart ==
    /\ k_mech = "pynput"
    /\ modifier_state = AllReleased
    /\ keys = 0
    /\ k_prev = AllReleased
    /\ k_seen = AllReleased
    /\ k_out = <<>>

(***************************************************************************)
(* The text-selection monitor (text_selection.py).  Time is in whole       *)
(* seconds; the clock starts at a time.time() that is no less than the     *)
(* threshold, as any reading of the epoch clock is.                        *)
(***************************************************************************)
Texts == {"A", "B"}

\* Each start() makes one thread (text_selection.py:163); two are kept.
SelThreads == {1, 2}

Epoch == ChangeThreshold

\* text_selection.py:34-36.
SelectionStart ==
    /\ s_running = FALSE
    /\ last_selection = ""
    /\ s_pc = [i \in SelThreads |-> "none"]
    /\ s_wake = [i \in SelThreads |-> 0]
    /\ last_selection_time = [i \in SelThreads |-> 0]
    /\ clock = Epoch
    /\ s_events = <<>>

(***************************************************************************)
(* The state after __init__ (monitor.py:61-128), for a configuration given *)
(* by the specification.                                                   *)
(***************************************************************************)
ProgramStart ==
    /\ ui_events = <<>>
    /\ ev = [i \in EventIds |-> NoEvent]
    /\ n_accepted = 0
    /\ screenshot_counter = 0
    /\ rawlog = <<>>
    /\ timeline = IF ~timeline_file THEN <<>>
                  ELSE IF timeline_format = "json" THEN <<Tok("open")>>
                  ELSE <<Tok("hdr")>>
    /\ timeline_entry_count = 0
    /\ timers = {}
    /\ pc = [t \in Threads |-> "idle"]
    /\ cur = [t \in Threads |-> 0]
    /\ prefix = [t \in Threads |-> "none"]
    /\ invoked = [t \in Threads |-> <<>>]
    /\ cap_ok = [t \in Threads |-> FALSE]
    /\ persist_failed = [t \in Threads |-> FALSE]
    /\ cb_raised = [t \in Threads |-> FALSE]
    /\ lock_owner = "none"
    /\ upc = [th \in TrackerThreads |-> "idle"]
    /\ fired = {}
    /\ MouseStart
    /\ KeyboardStart
    /\ SelectionStart

SinkStart ==
    /\ ProgramStart
    /\ LibIdle

\* Every output enabled or not, the monitors wired to the method
\* (monitor.py:131-139).
SinkInit ==
    /\ history_size = DefaultHistory
    /\ take_screenshots \in BOOLEAN
    /\ screenshot_dir \in (IF take_screenshots THEN BOOLEAN ELSE {FALSE})
    /\ output_file \in BOOLEAN
    /\ timeline_file \in BOOLEAN
    /\ timeline_format \in (IF timeline_file THEN {"json", "csv"} ELSE {"json"})
    /\ impl = "method"
    /\ budget = MaxSinkEvents
    /\ lifecycle = "new"
    /\ SinkStart
    /\ TrackerIdle
    /\ ResolverIdle

\* No output but the history, of every capacity up to MaxHist, filled by
\* either implementation.
HistoryInit ==
    /\ history_size \in 0..MaxHist
    /\ take_screenshots = FALSE
    /\ screenshot_dir = FALSE
    /\ output_file = FALSE
    /\ timeline_file = FALSE
    /\ timeline_format = "json"
    /\ impl \in {"method", "function"}
    /\ budget = MaxEvents
    /\ lifecycle = "new"
    /\ SinkStart
    /\ TrackerIdle
    /\ ResolverIdle

\* The timeline in either format, written by either implementation.
TimelineInit ==
    /\ history_size = DefaultHistory
    /\ take_screenshots = FALSE
    /\ screenshot_dir = FALSE
    /\ output_file = FALSE
    /\ timeline_file = TRUE
    /\ timeline_format \in {"json", "csv"}
    /\ impl \in {"method", "function"}
    /\ budget = MaxEvents
    /\ lifecycle = "new"
    /\ SinkStart
    /\ TrackerIdle
    /\ ResolverIdle

(***************************************************************************)
(* start() and stop() (monitor.py:636-692).  stop() clears the flag, stops *)
(* the monitors, and then closes the JSON array.                           *)
(***************************************************************************)
Start ==
    /\ lifecycle = "new"
    /\ lifecycle' = "running"
    /\ UNCHANGED <<cfgvars, libvars, srcvars, lockvars, trkvars, resvars, sinkvars, pc, cur, prefix, budget, envvars>>

StopFlag ==
    /\ lifecycle = "running"
    /\ lifecycle' = "closing"
    /\ UNCHANGED <<cfgvars, libvars, srcvars, lockvars, trkvars, resvars, sinkvars, pc, cur, prefix, budget, envvars>>

StopClose ==
    /\ lifecycle = "closing"
    /\ lifecycle' = "stopped"
    /\ \E ok \in BOOLEAN :
          timeline' = IF timeline_file /\ timeline_format = "json" /\ ok
                      THEN Append(timeline, Tok("close"))
                      ELSE timeline
    /\ UNCHANGED <<cfgvars, libvars, srcvars, lockvars, trkvars, resvars, ui_events, ev, n_accepted, screenshot_counter,
                   rawlog, timeline_entry_count, timers,
                   pc, cur, prefix, budget, envvars>>

(***************************************************************************)
(* _add_event, step by step, run by thread t.                              *)
(***************************************************************************)
\* monitor.py:247-251: under the lock, append and trim; thread t then goes
\* on with the rest of _add_event.
AppendEvent(t, ty, el) ==
    /\ ev' = [ev EXCEPT ![n_accepted + 1] =
                 [type |-> ty, elem |-> el, shot |-> {}]]
    /\ n_accepted' = n_accepted + 1
    /\ ui_events' = AppendTrim(ui_events, n_accepted + 1, history_size)
    /\ cur' = [cur EXCEPT ![t] = n_accepted + 1]
    /\ pc' = [pc EXCEPT ![t] = AfterAppend(ty)]
    /\ invoked' = [invoked EXCEPT ![t] = <<>>]
    /\ cap_ok' = [cap_ok EXCEPT ![t] = FALSE]
    /\ persist_failed' = [persist_failed EXCEPT ![t] = FALSE]
    /\ cb_raised' = [cb_raised EXCEPT ![t] = FALSE]
    /\ UNCHANGED <<screenshot_counter, rawlog, timeline, timeline_entry_count,
                   timers, prefix>>

Accept(t) ==
    /\ lifecycle = "running"
    /\ pc[t] = "idle"
    /\ n_accepted < budget
    /\ CanAcquire(lock_owner, t)
    /\ \E el \in (IF t = "mouse" THEN Elements ELSE {"none"}) :
          AppendEvent(t, EventTypeOf(t), el)
    /\ UNCHANGED <<cfgvars, libvars, srcvars, lockvars, trkvars, resvars, lifecycle,
                   budget>>

\* monitor.py:254-277: count under the lock, capture, attach the path.
Capture(t) ==
    /\ pc[t] = "shot"
    /\ screenshot_counter' = screenshot_counter + 1
    /\ \E ok \in BOOLEAN :
          LET path == CaptureScreenshot(screenshot_dir, ok, ev[cur[t]].elem,
                                        screenshot_counter')
          IN  /\ ev' = [ev EXCEPT ![cur[t]].shot = path]
              /\ cap_ok' = [cap_ok EXCEPT ![t] = screenshot_dir /\ ok]
              /\ persist_failed' = [persist_failed EXCEPT ![t] =
                                        @ \/ (screenshot_dir /\ ~ok)]
    /\ pc' = [pc EXCEPT ![t] = AfterShot]
    /\ UNCHANGED <<cfgvars, libvars, srcvars, lockvars, trkvars, resvars, ui_events, n_accepted, rawlog, timeline,
                   timeline_entry_count, timers, cur, prefix,
                   lifecycle, budget, invoked, cb_raised>>

\* monitor.py:280-285: one line of the raw log, errors logged.
WriteLog(t) ==
    /\ pc[t] = "rawlog"
    /\ \E ok \in BOOLEAN :
          IF ok
          THEN /\ rawlog' = Append(rawlog, [id |-> cur[t], eol |-> Eol(impl)])
               /\ pc' = [pc EXCEPT ![t] = AfterLog]
               /\ UNCHANGED persist_failed
          ELSE /\ persist_failed' = [persist_failed EXCEPT ![t] = TRUE]
               /\ pc' = [pc EXCEPT ![t] = OnLogError]
               /\ UNCHANGED rawlog
    /\ UNCHANGED <<cfgvars, libvars, srcvars, lockvars, trkvars, resvars, ui_events, ev, n_accepted, screenshot_counter,
                   timeline, timeline_entry_count, timers, cur,
                   prefix, lifecycle, budget, invoked, cap_ok, cb_raised>>

\* monitor.py:228: the separator is chosen from the count read now.
TimelinePrefix(t) ==
    /\ pc[t] = "tl_prefix"
    /\ prefix' = [prefix EXCEPT ![t] =
                     IF timeline_entry_count > 0 THEN Sep(impl) ELSE "none"]
    /\ pc' = [pc EXCEPT ![t] = "tl_write"]
    /\ UNCHANGED <<cfgvars, libvars, srcvars, lockvars, trkvars, resvars, sinkvars, cur, lifecycle, budget, envvars>>

\* monitor.py:230-231, 242-243: the append; an error skips the count.
TimelineWrite(t) ==
    /\ pc[t] = "tl_write"
    /\ \E ok \in BOOLEAN :
          IF ok
          THEN /\ timeline' = timeline
                      \o (IF prefix[t] = "none" THEN <<>> ELSE <<Tok(prefix[t])>>)
                      \o <<Rec(cur[t])>>
               /\ pc' = [pc EXCEPT ![t] = "tl_incr"]
               /\ UNCHANGED persist_failed
          ELSE /\ persist_failed' = [persist_failed EXCEPT ![t] = TRUE]
               /\ pc' = [pc EXCEPT ![t] = OnTimelineError]
               /\ UNCHANGED timeline
    /\ prefix' = [prefix EXCEPT ![t] = "none"]
    /\ UNCHANGED <<cfgvars, libvars, srcvars, lockvars, trkvars, resvars, ui_events, ev, n_accepted, screenshot_counter,
                   rawlog, timeline_entry_count, timers, cur,
                   lifecycle, budget, invoked, cap_ok, cb_raised>>

\* monitor.py:233.
TimelineCount(t) ==
    /\ pc[t] = "tl_incr"
    /\ timeline_entry_count' = timeline_entry_count + 1
    /\ pc' = [pc EXCEPT ![t] = "notify"]
    /\ UNCHANGED <<cfgvars, libvars, srcvars, lockvars, trkvars, resvars, ui_events, ev, n_accepted, screenshot_counter,
                   rawlog, timeline, timers, cur, prefix, lifecycle,
                   budget, envvars>>

\* monitor.py:235-243: one CSV row.
TimelineCsv(t) ==
    /\ pc[t] = "tl_csv"
    /\ \E ok \in BOOLEAN :
          IF ok
          THEN /\ timeline' = Append(timeline, Row(cur[t]))
               /\ UNCHANGED persist_failed
          ELSE /\ persist_failed' = [persist_failed EXCEPT ![t] = TRUE]
               /\ UNCHANGED timeline
    /\ pc' = [pc EXCEPT ![t] = OnTimelineError]
    /\ UNCHANGED <<cfgvars, libvars, srcvars, lockvars, trkvars, resvars, ui_events, ev, n_accepted, screenshot_counter,
                   rawlog, timeline_entry_count, timers, cur,
                   prefix, lifecycle, budget, invoked, cap_ok, cb_raised>>

\* An accept() that schedules nothing.
ScheduleRepollNever(ty, id, started) == started

\* monitor.py:293-295: threading.Timer(0.5, self._update_ui_state).start()
\* for a click; `started` are the clicks whose Timer was started.
ScheduleRepoll(ty, id, started) ==
    IF ty = "click" THEN started \cup {id} ELSE started

\* monitor.py:291-295: the callbacks, then the re-poll Timer of a click.
Notify(t) ==
    /\ pc[t] = "notify"
    /\ LET ty == ev[cur[t]].type
       IN  \E raising \in SUBSET Range(callbacks[ty]) :
              LET res == NotifyCallbacks(callbacks[ty], raising)
              IN  /\ invoked' = [invoked EXCEPT ![t] = res.invoked]
                  /\ cb_raised' = [cb_raised EXCEPT ![t] = raising # {}]
                  /\ IF res.propagated
                     THEN /\ pc' = [pc EXCEPT ![t] = "raised"]
                          /\ UNCHANGED timers
                     ELSE /\ pc' = [pc EXCEPT ![t] = "idle"]
                          /\ timers' = ScheduleRepoll(ty, cur[t], timers)
    /\ UNCHANGED <<cfgvars, libvars, srcvars, lockvars, trkvars, resvars, ui_events, ev, n_accepted, screenshot_counter,
                   rawlog, timeline, timeline_entry_count, cur, prefix,
                   lifecycle, budget, cap_ok, persist_failed>>

Next ==
    \/ Start
    \/ StopFlag
    \/ StopClose
    \/ \E t \in Threads : Accept(t)
    \/ \E t \in Threads : Capture(t)
    \/ \E t \in Threads : WriteLog(t)
    \/ \E t \in Threads : TimelinePrefix(t)
    \/ \E t \in Threads : TimelineWrite(t)
    \/ \E t \in Threads : TimelineCount(t)
    \/ \E t \in Threads : TimelineCsv(t)
    \/ \E t \in Threads : Notify(t)

Spec == SinkInit /\ [][Next]_vars

\* The sink with no output configured: only the history and the callbacks.
HistoryNext ==
    \/ Start
    \/ StopFlag
    \/ StopClose
    \/ \E t \in Threads : Accept(t)
    \/ \E t \in Threads : Notify(t)

SpecHistory == HistoryInit /\ [][HistoryNext]_vars

\* The sink writing the timeline only.
TimelineNext ==
    \/ Start
    \/ StopFlag
    \/ StopClose
    \/ \E t \in Threads : Accept(t)
    \/ \E t \in Threads : TimelinePrefix(t)
    \/ \E t \in Threads : TimelineWrite(t)
    \/ \E t \in Threads : TimelineCount(t)
    \/ \E t \in Threads : TimelineCsv(t)
    \/ \E t \in Threads : Notify(t)

SpecTimeline == TimelineInit /\ [][TimelineNext]_vars

(***************************************************************************)
(* The UI-State Tracker: one run of _update_ui_state (monitor.py:485-623), *)
(* under the lock from its first line to its last.  `obs` is what the      *)
(* queries of this run answer.                                             *)
(***************************************************************************)
Event(ty, old, new, pid, method, element) ==
    [type |-> ty, old |-> old, new |-> new, pid |-> pid, method |-> method,
     element |-> element]

\* clean_accessibility_value(raw_title) or dflt (monitor.py:577, 585).
TitleOr(title, dflt) == IF title = "" THEN dflt ELSE title

\* monitor.py:501-531: the pid is taken over before the handle is made.
AppAxis(fm, ax_app) ==
    IF current_app_pid # fm.pid
    THEN IF ax_app = "ok"
         THEN [pid |-> fm.pid, app |-> fm.pid,
               events |-> <<Event("app_change",
                                  IF current_app # 0
                                  THEN AppTitle(current_app) ELSE "None",
                                  fm.name, fm.pid, fm.method, "")>>]
         ELSE [pid |-> fm.pid, app |-> current_app, events |-> <<>>]
    ELSE [pid |-> current_app_pid, app |-> current_app, events |-> <<>>]

\* What the queries of one poll can answer.  The strategies between the
\* first and the last differ from the first in the method tag only; a
\* window list that raises is an empty one (monitor.py:538-539), a focus
\* query that raises is one with no element (monitor.py:622-623).
Levels == {1, 4, 5}

AxAppOutcomes == {"ok", "raise"}

WindowOutcomes == {"list", "script", "empty"}

FocusOutcomes == {"elem", "none"}

\* monitor.py:533-539: the window list of the tracked application.
AxWindows(app, wins, win) ==
    IF app # 0 /\ wins = "list" THEN <<win>> ELSE <<>>

\* monitor.py:541-601: the scripted names when the tree gives no window,
\* else the first window of the tree, compared by id.
WindowAxis(app, wins, win, attrs) ==
    LET windows == AxWindows(app, wins, win)
    IN  IF windows = <<>>
        THEN IF wins = "script"
             THEN [window |-> "None",
                   events |-> <<Event("window_change",
                                      IF current_window = "None"
                                      THEN "Unknown" ELSE "Previous Window",
                                      attrs[win].title, 0, "AppleScript", "")>>]
             ELSE [window |-> current_window, events |-> <<>>]
        ELSE IF \/ current_window = "None"
                \/ ObjectId(attrs[windows[1]]) # ObjectId(attrs[current_window])
             THEN [window |-> windows[1],
                   events |-> <<Event("window_change",
                                      IF current_window = "None" THEN "Unknown"
                                      ELSE TitleOr(attrs[current_window].title,
                                                   "Previous Window"),
                                      TitleOr(attrs[windows[1]].title,
                                              "Untitled Window"),
                                      0, "Accessibility", "")>>]
             ELSE [window |-> current_window, events |-> <<>>]

\* monitor.py:603-623: the focused element, compared by id.
FocusAxis(app, focus, foc, attrs) ==
    IF /\ app # 0
       /\ focus = "elem"
       /\ \/ current_element = "None"
          \/ ObjectId(attrs[foc]) # ObjectId(attrs[current_element])
    THEN [element |-> foc,
          events |-> <<Event("focus_change", "", "", 0, "", foc)>>]
    ELSE [element |-> current_element, events |-> <<>>]

UpdateUiState(obs) ==
    LET fm == get_frontmost_app_info(StrategiesAt(obs.level), current_app_pid)
    IN  IF fm = NoApp
        THEN [pid |-> current_app_pid, app |-> current_app,
              window |-> current_window, element |-> current_element,
              events |-> <<>>]
        ELSE LET a == AppAxis(fm, obs.ax_app)
                 w == WindowAxis(a.app, obs.wins, obs.win, obs.attrs)
                 f == FocusAxis(a.app, obs.focus, obs.foc, obs.attrs)
             IN  [pid |-> a.pid, app |-> a.app, window |-> w.window,
                  element |-> f.element,
                  events |-> a.events \o w.events \o f.events]

\* The history after k events, numbered from `first`, went through
\* _add_event one after the other.
RECURSIVE HistoryAfter(_, _, _, _)
HistoryAfter(h, first, k, n) ==
    IF k = 0 THEN h
    ELSE HistoryAfter(AppendTrim(h, first, n), first + 1, k - 1, n)

\* One poll.  The monitor of this specification has no output file and no
\* callback for the transition events, so _add_event is the append and the
\* trim (monitor.py:247-251) and nothing else.
\* One run of the body, its queries answering from the given sets.
RunUpdate(levels, ax_apps, windows, focuses) ==
    \E level \in levels, ax_app \in ax_apps,
       wins \in windows, focus \in focuses :
       \E obs \in {[level |-> level, ax_app |-> ax_app, wins |-> wins,
                    focus |-> focus, pid |-> os_front_pid,
                    win |-> os_front_win, foc |-> os_focus,
                    attrs |-> os_attrs]} :
       \E r \in {UpdateUiState(obs)} :
          /\ current_app_pid' = r.pid
          /\ current_app' = r.app
          /\ current_window' = r.window
          /\ current_element' = r.element
          /\ emitted' = r.events
          /\ repeated' = (obs = last_obs)
          /\ last_obs' = obs
          /\ ui_events' = HistoryAfter(ui_events, n_accepted + 1,
                                       Len(r.events), history_size)
          /\ n_accepted' = n_accepted + Len(r.events)
          /\ ev' = [i \in EventIds |->
                      IF i > n_accepted /\ i <= n_accepted + Len(r.events)
                      THEN [type |-> r.events[i - n_accepted].type,
                            elem |-> IF r.events[i - n_accepted].element = ""
                                     THEN "none" ELSE "titled",
                            shot |-> {}]
                      ELSE ev[i]]

Poll ==
    /\ polls < MaxPolls
    /\ ~output_file
    /\ ~timeline_file
    /\ RunUpdate(Levels, AxAppOutcomes, WindowOutcomes, FocusOutcomes)
    /\ polls' = polls + 1
    /\ UNCHANGED <<cfgvars, libvars, srcvars, lockvars, resvars, screenshot_counter, rawlog,
                   timeline, timeline_entry_count, timers, thrvars, envvars,
                   os_front_pid, os_front_win, os_focus, os_attrs>>

\* Between two polls the user brings another application to the front,
\* another window to the front, moves the focus, or the frontmost window
\* gets another title.  The next poll is then told something else than the
\* poll before, so last_obs is forgotten.
TrackerKeeps ==
    /\ last_obs' = NoObs
    /\ UNCHANGED <<cfgvars, libvars, srcvars, lockvars, resvars, sinkvars, thrvars, envvars,
                   current_app_pid, current_app, current_window,
                   current_element, polls, repeated, emitted>>

SwitchApp ==
    /\ polls < MaxPolls
    /\ \E p \in Pids \ {os_front_pid} : os_front_pid' = p
    /\ UNCHANGED <<os_front_win, os_focus, os_attrs>>
    /\ TrackerKeeps

SwitchWindow ==
    /\ polls < MaxPolls
    /\ \E w \in Windows \ {os_front_win} : os_front_win' = w
    /\ UNCHANGED <<os_front_pid, os_focus, os_attrs>>
    /\ TrackerKeeps

MoveFocus ==
    /\ polls < MaxPolls
    /\ \E f \in FocusElems \ {os_focus} : os_focus' = f
    /\ UNCHANGED <<os_front_pid, os_front_win, os_attrs>>
    /\ TrackerKeeps

Retitle ==
    /\ polls < MaxPolls
    /\ \E t \in Titles \ {os_attrs[os_front_win].title} :
          os_attrs' = [os_attrs EXCEPT ![os_front_win].title = t]
    /\ UNCHANGED <<os_front_pid, os_front_win, os_focus>>
    /\ TrackerKeeps

\* A monitor with no output file, whose source monitors stay silent.
SinkQuiet ==
    /\ history_size = DefaultHistory
    /\ take_screenshots = FALSE
    /\ screenshot_dir = FALSE
    /\ output_file = FALSE
    /\ timeline_file = FALSE
    /\ timeline_format = "json"
    /\ impl = "method"
    /\ budget = 0
    /\ lifecycle = "running"
    /\ SinkStart

TrackerInit == SinkQuiet /\ TrackerStart /\ ResolverIdle

TrackerNext == Poll \/ SwitchApp \/ SwitchWindow \/ MoveFocus \/ Retitle

SpecTracker == TrackerInit /\ [][TrackerNext]_vars

(***************************************************************************)
(* _update_ui_state as the threads run it: the call, the entry into        *)
(* `with self._lock` (monitor.py:487), and the body, at whose end the lock *)
(* is released.                                                            *)
(***************************************************************************)
\* monitor.py:628-630: the polling loop calls _update_ui_state while the
\* monitor is running.
PollerTick ==
    /\ lifecycle = "running"
    /\ upc["poller"] = "idle"
    /\ polls < MaxPolls
    /\ upc' = [upc EXCEPT !["poller"] = "wait"]
    /\ polls' = polls + 1
    /\ UNCHANGED <<cfgvars, libvars, srcvars, resvars, sinkvars, thrvars, envvars, lock_owner,
                   fired, current_app_pid, current_app, current_window,
                   current_element, os_front_pid, os_front_win, os_focus,
                   os_attrs, last_obs, repeated, emitted>>

\* monitor.py:295: the delay of a click's Timer has elapsed and its thread
\* calls _update_ui_state.  Nothing cancels a Timer.
TimerFire ==
    /\ upc["timer"] = "idle"
    /\ \E id \in timers \ fired : fired' = fired \cup {id}
    /\ upc' = [upc EXCEPT !["timer"] = "wait"]
    /\ UNCHANGED <<cfgvars, libvars, srcvars, resvars, sinkvars, thrvars, envvars, trkvars,
                   lock_owner>>

\* monitor.py:487: with self._lock.
PollEnter(th) ==
    /\ upc[th] = "wait"
    /\ CanAcquire(lock_owner, th)
    /\ lock_owner' = th
    /\ upc' = [upc EXCEPT ![th] = "body"]
    /\ UNCHANGED <<cfgvars, libvars, srcvars, resvars, sinkvars, thrvars, envvars, trkvars,
                   fired>>

\* monitor.py:488-623: the body, and the release at the end of the block.
\* Here the resolver and the element queries answer; the window list comes
\* from the accessibility tree or from the script.
PollBody(th) ==
    /\ upc[th] = "body"
    /\ ~output_file
    /\ ~timeline_file
    /\ RunUpdate({1}, {"ok"}, {"list", "script"}, {"elem"})
    /\ lock_owner' = IF lock_owner = th THEN "none" ELSE lock_owner
    /\ upc' = [upc EXCEPT ![th] = "idle"]
    /\ UNCHANGED <<cfgvars, libvars, srcvars, resvars, screenshot_counter, rawlog, timeline,
                   timeline_entry_count, timers, thrvars, envvars, fired,
                   os_front_pid, os_front_win, os_focus, os_attrs, polls>>

\* A monitor with no output file, on a desktop that stays as it is.
RepollInit ==
    /\ history_size = DefaultHistory
    /\ take_screenshots = FALSE
    /\ screenshot_dir = FALSE
    /\ output_file = FALSE
    /\ timeline_file = FALSE
    /\ timeline_format = "json"
    /\ impl = "method"
    /\ budget = MaxSinkEvents
    /\ lifecycle = "new"
    /\ SinkStart
    /\ TrackerIdle
    /\ ResolverIdle

RepollNext ==
    \/ Start
    \/ StopFlag
    \/ StopClose
    \/ Accept("mouse")
    \/ Notify("mouse")
    \/ PollerTick
    \/ TimerFire
    \/ \E th \in TrackerThreads : PollEnter(th)
    \/ \E th \in TrackerThreads : PollBody(th)

\* A Timer thread whose delay has elapsed runs, a thread waiting for the
\* lock gets it once it stays free, and a thread inside the block goes on.
RepollFairness ==
    /\ WF_vars(TimerFire)
    /\ \A th \in TrackerThreads : WF_vars(PollEnter(th)) /\ WF_vars(PollBody(th))

SpecRepoll == RepollInit /\ [][RepollNext]_vars /\ RepollFairness

(***************************************************************************)
(* The mouse loop: one iteration of _track_mouse (mouse_monitor.py:63-137) *)
(* up to the append of _add_event; the rest of _add_event is the mouse     *)
(* thread's Notify.                                                        *)
(***************************************************************************)
Sample ==
    /\ lifecycle = "running"
    /\ pc["mouse"] = "idle"
    /\ samples < MaxSamples
    /\ samples' = samples + 1
    /\ m_prev' = m_cur
    /\ m_cur' = (m_buttons # {})
    /\ \E gap \in {SampleSleepMs + o : o \in Overheads} :
          \E now \in {Min(ElapsedCap, m_elapsed + gap)} :
             /\ m_gap' = now
             /\ IF ClickDue(m_buttons, now)
                THEN /\ \E el \in Elements :
                           AppendEvent("mouse", "click", el)
                     /\ m_elapsed' = 0
                     /\ m_emitted' = TRUE
                     /\ press_clicks' = press_clicks + 1
                ELSE /\ m_elapsed' = now
                     /\ m_emitted' = FALSE
                     /\ press_clicks' = IF m_buttons = {} THEN 0
                                        ELSE press_clicks
                     /\ UNCHANGED <<sinkvars, pc, cur, prefix, envvars>>
    /\ UNCHANGED <<cfgvars, libvars, kbdvars, selvars, lockvars, trkvars, resvars, lifecycle, budget,
                   m_buttons>>

\* The user presses or releases a button.
ButtonChange ==
    /\ samples < MaxSamples
    /\ \E b \in Buttons :
          m_buttons' = IF b \in m_buttons THEN m_buttons \ {b}
                       ELSE m_buttons \cup {b}
    /\ UNCHANGED <<cfgvars, libvars, kbdvars, selvars, lockvars, trkvars, resvars, sinkvars, thrvars,
                   envvars, m_elapsed, samples, m_cur, m_prev, m_emitted,
                   press_clicks, m_gap>>

MouseInit ==
    /\ history_size = DefaultHistory
    /\ take_screenshots = FALSE
    /\ screenshot_dir = FALSE
    /\ output_file = FALSE
    /\ timeline_file = FALSE
    /\ timeline_format = "json"
    /\ impl = "method"
    /\ budget = 0
    /\ lifecycle = "new"
    /\ SinkStart
    /\ TrackerIdle
    /\ ResolverIdle

MouseNext ==
    \/ Start
    \/ Sample
    \/ ButtonChange
    \/ Notify("mouse")

SpecMouse == MouseInit /\ [][MouseNext]_vars

(***************************************************************************)
(* The keyboard callbacks, each up to the append of _add_event; the rest   *)
(* of _add_event is the keyboard thread's Notify.                          *)
(***************************************************************************)
KeyEmit(ty, changes) ==
    /\ AppendEvent("kbd", ty, "none")
    /\ k_out' = <<[type |-> ty, changes |-> changes]>>

KeyHandled ==
    /\ keys' = keys + 1
    /\ k_prev' = modifier_state
    /\ UNCHANGED <<cfgvars, libvars, mousevars, selvars, lockvars, trkvars, resvars, lifecycle,
                   budget, k_mech>>

\* keyboard_monitor.py:292-355: on_press of pynput.
PynputPress ==
    /\ k_mech = "pynput"
    /\ lifecycle = "running"
    /\ pc["kbd"] = "idle"
    /\ keys < MaxKeys
    /\ \E key \in PynputKeys :
          /\ modifier_state' = IF PynputModifier(key) = "" THEN modifier_state
                               ELSE [modifier_state EXCEPT
                                        ![PynputModifier(key)] = TRUE]
          /\ k_seen' = modifier_state'
    /\ KeyEmit("key_press", {})
    /\ KeyHandled

\* keyboard_monitor.py:357-402: on_release of pynput.
PynputRelease ==
    /\ k_mech = "pynput"
    /\ lifecycle = "running"
    /\ pc["kbd"] = "idle"
    /\ keys < MaxKeys
    /\ \E key \in PynputKeys :
          /\ modifier_state' = IF PynputModifier(key) = "" THEN modifier_state
                               ELSE [modifier_state EXCEPT
                                        ![PynputModifier(key)] = FALSE]
          /\ k_seen' = modifier_state'
    /\ KeyEmit("key_release", {})
    /\ KeyHandled

\* keyboard_monitor.py:98-199: a key goes down or up under the event tap;
\* the flags of the event are put into the event only.
TapKey ==
    /\ k_mech = "tap"
    /\ pc["kbd"] = "idle"
    /\ keys < MaxKeys
    /\ \E ty \in {"key_press", "key_release"} : KeyEmit(ty, {})
    /\ k_seen' = modifier_state
    /\ UNCHANGED modifier_state
    /\ KeyHandled

\* keyboard_monitor.py:201-232: kCGEventFlagsChanged under the event tap.
TapFlagsChanged ==
    /\ k_mech = "tap"
    /\ pc["kbd"] = "idle"
    /\ keys < MaxKeys
    /\ \E new_modifier_state \in [Mods -> BOOLEAN] :
          /\ modifier_state' = new_modifier_state
          /\ k_seen' = new_modifier_state
          /\ IF ChangedModifiers(modifier_state, new_modifier_state) # {}
             THEN KeyEmit("modifier_change",
                          ChangedModifiers(modifier_state, new_modifier_state))
             ELSE /\ k_out' = <<>>
                  /\ UNCHANGED <<sinkvars, pc, cur, prefix, envvars>>
    /\ KeyHandled

\* keyboard_monitor.py:419-443: pynput if it can be set up, else the tap.
KeyboardInit ==
    /\ history_size = DefaultHistory
    /\ take_screenshots = FALSE
    /\ screenshot_dir = FALSE
    /\ output_file = FALSE
    /\ timeline_file = FALSE
    /\ timeline_format = "json"
    /\ impl = "method"
    /\ budget = 0
    /\ lifecycle = "running"
    /\ SinkStart
    /\ TrackerIdle
    /\ ResolverIdle

KeyboardSetup ==
    /\ keys = 0
    /\ k_mech = "pynput"
    /\ k_mech' = "tap"
    /\ UNCHANGED <<cfgvars, libvars, mousevars, selvars, lockvars, trkvars, resvars, sinkvars,
                   thrvars, envvars, modifier_state, keys, k_prev, k_seen,
                   k_out>>

KeyboardNext ==
    \/ KeyboardSetup
    \/ PynputPress
    \/ PynputRelease
    \/ TapKey
    \/ TapFlagsChanged
    \/ Notify("kbd")

SpecKeyboard == KeyboardInit /\ [][KeyboardNext]_vars

(***************************************************************************)
(* The text-selection monitor's start, stop and polling thread.            *)
(***************************************************************************)
\* text_selection.py:156-166: a new thread, whose last_selection_time is 0.
SelStart ==
    /\ ~s_running
    /\ s_running' = TRUE
    /\ \E i \in SelThreads :
          /\ s_pc[i] = "none"
          /\ \A j \in SelThreads : j < i => s_pc[j] # "none"
          /\ s_pc' = [s_pc EXCEPT ![i] = "sleeping"]
          /\ s_wake' = [s_wake EXCEPT ![i] = clock + SelectionInterval]
          /\ last_selection_time' = [last_selection_time EXCEPT ![i] = 0]
    /\ UNCHANGED <<cfgvars, libvars, mousevars, kbdvars, lockvars, trkvars, resvars,
                   sinkvars, thrvars, envvars, last_selection, clock,
                   s_events>>

\* text_selection.py:168-174: the flag only; the thread is not joined.
SelStop ==
    /\ s_running
    /\ s_running' = FALSE
    /\ UNCHANGED <<cfgvars, libvars, mousevars, kbdvars, lockvars, trkvars, resvars,
                   sinkvars, thrvars, envvars, last_selection, s_pc, s_wake,
                   last_selection_time, clock, s_events>>

Tock ==
    /\ clock < Epoch + MaxTime
    /\ clock' = clock + 1
    /\ UNCHANGED <<cfgvars, libvars, mousevars, kbdvars, lockvars, trkvars, resvars,
                   sinkvars, thrvars, envvars, s_running, last_selection,
                   s_pc, s_wake, last_selection_time, s_events>>

\* text_selection.py:103-106: the loop's test of self.running and the next
\* sleep, after an iteration of thread i.
SelLoop(i) ==
    IF s_running
    THEN /\ s_pc' = s_pc
         /\ s_wake' = [s_wake EXCEPT ![i] = clock + SelectionInterval]
    ELSE /\ s_pc' = [s_pc EXCEPT ![i] = "done"]
         /\ s_wake' = [s_wake EXCEPT ![i] = 0]

\* text_selection.py:110 and 117: the two tests that let a tick emit.
SelectionDue(now, last_time, selection, last) ==
    /\ ~(now - last_time < ChangeThreshold)
    /\ selection # ""
    /\ selection # last

\* text_selection.py:106-154: one iteration of thread i once its sleep is
\* over.  The callback is _add_event (monitor.py:143-144), whose append is
\* all it does for this event type with no output configured.
SelTick(i) ==
    /\ s_pc[i] = "sleeping"
    /\ clock >= s_wake[i]
    /\ \E selection \in Texts \cup {""} :
          IF SelectionDue(clock, last_selection_time[i], selection,
                          last_selection)
          THEN /\ ev' = [ev EXCEPT ![n_accepted + 1] =
                           [type |-> "text_selection", elem |-> "none",
                            shot |-> {}]]
               /\ n_accepted' = n_accepted + 1
               /\ ui_events' = AppendTrim(ui_events, n_accepted + 1,
                                          history_size)
               /\ s_events' = LastN(Append(s_events,
                                 [text |-> selection, at |-> clock]), 2)
               /\ last_selection' = selection
               /\ last_selection_time' =
                     [last_selection_time EXCEPT ![i] = clock]
          ELSE UNCHANGED <<ev, n_accepted, ui_events, s_events,
                           last_selection, last_selection_time>>
    /\ SelLoop(i)
    /\ UNCHANGED <<cfgvars, libvars, mousevars, kbdvars, lockvars, trkvars, resvars,
                   thrvars, envvars, screenshot_counter, rawlog, timeline,
                   timeline_entry_count, timers, s_running, clock>>

SelectionInit ==
    /\ history_size = DefaultHistory
    /\ take_screenshots = FALSE
    /\ screenshot_dir = FALSE
    /\ output_file = FALSE
    /\ timeline_file = FALSE
    /\ timeline_format = "json"
    /\ impl = "method"
    /\ budget = 0
    /\ lifecycle = "new"
    /\ SinkStart
    /\ TrackerIdle
    /\ ResolverIdle

SelectionNext ==
    \/ SelStart
    \/ SelStop
    \/ Tock
    \/ \E i \in SelThreads : SelTick(i)

SpecSelection == SelectionInit /\ [][SelectionNext]_vars

(***************************************************************************)
(* object_id on two synthetic elements, the first computed twice.          *)
(***************************************************************************)
IdentityInit ==
    /\ history_size = DefaultHistory
    /\ take_screenshots = FALSE
    /\ screenshot_dir = FALSE
    /\ output_file = FALSE
    /\ timeline_file = FALSE
    /\ timeline_format = "json"
    /\ impl = "method"
    /\ budget = 0
    /\ lifecycle = "new"
    /\ ProgramStart
    /\ TrackerIdle
    /\ ResolverIdle
    /\ LibIdleBut("id")
    /\ id_in \in [1..2 -> IdElements]
    /\ id_out = <<>>

ComputeIds ==
    /\ id_in # <<>>
    /\ id_out = <<>>
    /\ id_out' = <<IdOf(id_in[1]), IdOf(id_in[2]), IdOf(id_in[1])>>
    /\ UNCHANGED <<progvars, idrest, id_in>>

SpecIdentity == IdentityInit /\ [][ComputeIds]_vars

(***************************************************************************)
(* Consumers register callbacks, also for types the registry does not      *)
(* have, and events of any type are notified.                              *)
(***************************************************************************)
RegistryInit ==
    /\ history_size = DefaultHistory
    /\ take_screenshots = FALSE
    /\ screenshot_dir = FALSE
    /\ output_file = FALSE
    /\ timeline_file = FALSE
    /\ timeline_format = "json"
    /\ impl = "method"
    /\ budget = 0
    /\ lifecycle = "new"
    /\ ProgramStart
    /\ TrackerIdle
    /\ ResolverIdle
    /\ LibIdle

\* monitor.py:151-156.
AddCallback ==
    /\ reg_count < MaxCallbacks
    /\ \E event_type \in {"click", "key_press"} \cup UnknownTypes :
          \E r \in {Register(registry, event_type, reg_count + 1)} :
             /\ registry' = r.callbacks
             /\ reg_raised' = (reg_raised \/ r.raised)
             /\ reg_arg' = event_type
             /\ reg_rejected' = IF event_type \in EventTypes THEN reg_rejected
                                ELSE reg_rejected \cup {reg_count + 1}
    /\ reg_before' = registry
    /\ reg_count' = reg_count + 1
    /\ UNCHANGED <<progvars, regrest, reg_called>>

\* monitor.py:158-164, for an event of any type.
NotifyEvent ==
    /\ \E event_type \in {"click", "key_press"} \cup UnknownTypes :
          \E raising \in SUBSET Range(CallbacksFor(registry, event_type)) :
             reg_called' = reg_called \cup
                Range(NotifyCallbacks(CallbacksFor(registry, event_type),
                                      raising).invoked)
    /\ UNCHANGED <<progvars, regrest, registry, reg_count, reg_before, reg_arg,
                   reg_raised, reg_rejected>>

RegistryNext ==
    \/ AddCallback
    \/ NotifyEvent

SpecRegistry == RegistryInit /\ [][RegistryNext]_vars

(***************************************************************************)
(* MacOSUIMonitor.start() where the keyboard mechanisms may be missing,    *)
(* and the polling loop and the mouse thread afterwards.                   *)
(***************************************************************************)
StartupInit ==
    /\ history_size = DefaultHistory
    /\ take_screenshots = FALSE
    /\ screenshot_dir = FALSE
    /\ output_file = FALSE
    /\ timeline_file = FALSE
    /\ timeline_format = "json"
    /\ impl = "method"
    /\ budget = MaxSinkEvents
    /\ lifecycle = "new"
    /\ ProgramStart
    /\ TrackerIdle
    /\ ResolverIdle
    /\ LibIdleBut("start")
    /\ kb_avail \in SUBSET Mechanisms
    /\ kb_tried = <<>>
    /\ start_done = FALSE

\* monitor.py:636-659: the flag, the polling thread, the mouse monitor, the
\* keyboard monitor.
MonitorStart ==
    /\ lifecycle = "new"
    /\ lifecycle' = "running"
    /\ \E r \in {KeyboardStartResult(kb_avail)} :
          /\ k_mech' = r.mech
          /\ kb_tried' = r.tried
    /\ start_done' = TRUE
    /\ UNCHANGED <<cfgvars, sinkvars, envvars, trkvars, resvars, lockvars,
                   mousevars, selvars, startrest, pc, cur,
                   prefix, budget, modifier_state, keys, k_prev, k_seen,
                   k_out, kb_avail>>

StartupNext ==
    \/ MonitorStart
    \/ Accept("mouse")
    \/ Notify("mouse")
    \/ PollerTick
    \/ PollEnter("poller")
    \/ PollBody("poller")

SpecStartup == StartupInit /\ [][StartupNext]_vars

(***************************************************************************)
(* One key-down under the event tap, for any keycode and characters.       *)
(***************************************************************************)
KeyDecodeInit ==
    /\ history_size = DefaultHistory
    /\ take_screenshots = FALSE
    /\ screenshot_dir = FALSE
    /\ output_file = FALSE
    /\ timeline_file = FALSE
    /\ timeline_format = "json"
    /\ impl = "method"
    /\ budget = 0
    /\ lifecycle = "running"
    /\ ProgramStart
    /\ TrackerIdle
    /\ ResolverIdle
    /\ LibIdleBut("kd")
    /\ kd_in \in [keycode : Keycodes, char : {"", "a", "A"}, log : BOOLEAN]
    /\ kd_event = NoKey
    /\ kd_row = NoKey

\* keyboard_monitor.py:98-161: the event, the sink's accept, the log row.
TapKeyDown ==
    /\ kd_event = NoKey
    /\ pc["kbd"] = "idle"
    /\ kd_event' = KeyName(kd_in.keycode)
    /\ AppendEvent("kbd", "key_press", "none")
    /\ kd_row' = IF kd_in.log
                 THEN KeyDisplay(kd_in.char, KeyName(kd_in.keycode),
                                 kd_in.keycode)
                 ELSE NoKey
    /\ UNCHANGED <<cfgvars, lockvars, trkvars, resvars, srcvars, kdrest,
                   lifecycle, budget, kd_in>>

KeyDecodeNext ==
    \/ TapKeyDown
    \/ Notify("kbd")

SpecKeyDecode == KeyDecodeInit /\ [][KeyDecodeNext]_vars

(***************************************************************************)
(* One call of run_apple_script, or of MacOSUIMonitor._run_apple_script,   *)
(* on any end of osascript.                                                *)
(***************************************************************************)
AppleScriptInit ==
    /\ history_size = DefaultHistory
    /\ take_screenshots = FALSE
    /\ screenshot_dir = FALSE
    /\ output_file = FALSE
    /\ timeline_file = FALSE
    /\ timeline_format = "json"
    /\ impl = "method"
    /\ budget = 0
    /\ lifecycle = "new"
    /\ ProgramStart
    /\ TrackerIdle
    /\ ResolverIdle
    /\ LibIdleBut("as")
    /\ as_in \in [impl : {"function", "method"}, end : ScriptEnds,
                  stdout : ScriptOutputs]
    /\ as_out = NotCalled

CallAppleScript ==
    /\ as_out = NotCalled
    /\ as_out' = RunAppleScript(as_in.end, as_in.stdout)
    /\ UNCHANGED <<progvars, asrest, as_in>>

SpecAppleScript == AppleScriptInit /\ [][CallAppleScript]_vars

(***************************************************************************)
(* start() and stop() called in any order, and the loops of the threads    *)
(* they make.  What a loop body does to the sink is in Poll and Sample.    *)
(***************************************************************************)
LifecycleInit ==
    /\ history_size = DefaultHistory
    /\ take_screenshots = FALSE
    /\ screenshot_dir = FALSE
    /\ output_file = FALSE
    /\ timeline_file = FALSE
    /\ timeline_format = "json"
    /\ impl = "method"
    /\ budget = 0
    /\ lifecycle = "new"
    /\ ProgramStart
    /\ TrackerIdle
    /\ ResolverIdle
    /\ LibIdle

LcOthers == <<progvars, lcrest>>

\* monitor.py:636-659 with mouse_monitor.py:139-149.
StartCall ==
    /\ ~running
    /\ running' = TRUE
    /\ \E i \in NextFree(poll_th) : poll_th' = [poll_th EXCEPT ![i] = "test"]
    /\ IF m_running
       THEN UNCHANGED <<m_running, mouse_th>>
       ELSE /\ m_running' = TRUE
            /\ \E j \in NextFree(mouse_th) :
                  mouse_th' = [mouse_th EXCEPT ![j] = "test"]
    /\ UNCHANGED <<LcOthers, told, resumed>>

\* monitor.py:661-692 with mouse_monitor.py:151-157: the flag, the join of
\* the polling thread made last, the mouse monitor's flag.
StopCall ==
    /\ running
    /\ running' = FALSE
    /\ m_running' = FALSE
    /\ told' = told \cup {<<"poll", i>> : i \in Alive(poll_th)}
                    \cup {<<"mouse", j>> : j \in Alive(mouse_th)}
    /\ \E last \in {i \in LoopThreads :
                      poll_th[i] # "none" /\ \A j \in LoopThreads :
                                                j > i => poll_th[j] = "none"} :
          \E after \in JoinOutcomes(poll_th[last]) :
             poll_th' = [poll_th EXCEPT ![last] = after]
    /\ UNCHANGED <<LcOthers, mouse_th, resumed>>

\* monitor.py:628: while self.running.
PollTest(i) ==
    /\ poll_th[i] = "test"
    /\ poll_th' = [poll_th EXCEPT ![i] = IF running THEN "update" ELSE "done"]
    /\ resumed' = IF running /\ <<"poll", i>> \in told
                  THEN resumed \cup {<<"poll", i>>} ELSE resumed
    /\ UNCHANGED <<LcOthers, running, m_running, mouse_th, told>>

\* monitor.py:629-632: _update_ui_state returns.
PollUpdated(i) ==
    /\ poll_th[i] = "update"
    /\ poll_th' = [poll_th EXCEPT ![i] = "sleep"]
    /\ UNCHANGED <<LcOthers, running, m_running, mouse_th, told, resumed>>

\* monitor.py:634: the sleep is over.
PollWake(i) ==
    /\ poll_th[i] = "sleep"
    /\ poll_th' = [poll_th EXCEPT ![i] = "test"]
    /\ UNCHANGED <<LcOthers, running, m_running, mouse_th, told, resumed>>

\* mouse_monitor.py:63: while self.running.
MouseTest(j) ==
    /\ mouse_th[j] = "test"
    /\ mouse_th' = [mouse_th EXCEPT ![j] =
                       IF m_running THEN "body" ELSE "done"]
    /\ resumed' = IF m_running /\ <<"mouse", j>> \in told
                  THEN resumed \cup {<<"mouse", j>>} ELSE resumed
    /\ UNCHANGED <<LcOthers, running, m_running, poll_th, told>>

\* mouse_monitor.py:64-137: one sample and the sleep of 0.05 s.
MouseBody(j) ==
    /\ mouse_th[j] = "body"
    /\ mouse_th' = [mouse_th EXCEPT ![j] = "test"]
    /\ UNCHANGED <<LcOthers, running, m_running, poll_th, told, resumed>>

LifecycleNext ==
    \/ StartCall
    \/ StopCall
    \/ \E i \in LoopThreads : PollTest(i)
    \/ \E i \in LoopThreads : PollUpdated(i)
    \/ \E i \in LoopThreads : PollWake(i)
    \/ \E j \in LoopThreads : MouseTest(j)
    \/ \E j \in LoopThreads : MouseBody(j)

SpecLifecycle == LifecycleInit /\ [][LifecycleNext]_vars

(***************************************************************************)
(* One call of the resolver on arbitrary strategy outcomes.                *)
(***************************************************************************)
ResolverInit ==
    /\ SinkQuiet
    /\ TrackerIdle
    /\ res_outs \in [Strategies -> Outcomes]
    /\ res_cached \in {0} \cup Pids
    /\ res_result = NoApp
    /\ res_done = FALSE

ResolverCall ==
    /\ ~res_done
    /\ res_result' = get_frontmost_app_info(res_outs, res_cached)
    /\ res_done' = TRUE
    /\ UNCHANGED <<cfgvars, libvars, srcvars, lockvars, sinkvars, thrvars, envvars, trkvars, res_outs,
                   res_cached>>

SpecResolver == ResolverInit /\ [][ResolverCall]_vars

(***************************************************************************)
(* Claims about the tracker and the resolver.                              *)
(***************************************************************************)
AxisCount(ty) == Cardinality({i \in 1..Len(emitted) : emitted[i].type = ty})

\* C1: a poll emits at most one event per axis, and a poll that is told
\* exactly what the poll before it was told (same pid, same frontmost
\* window, same focused element) emits no event at all.
C1_RepeatedPollSilent ==
    /\ \A ty \in {"app_change", "window_change", "focus_change"} :
          AxisCount(ty) <= 1
    /\ repeated => emitted = <<>>

FirstOk(k) ==
    /\ res_outs[k].st = "ok"
    /\ \A j \in 1..(k - 1) : res_outs[j].st # "ok"

MethodTags == <<"NSWorkspace", "AppleScript", "lsappinfo", "ps">>

\* C6: the resolver returns the record of the first strategy, in the order
\* workspace, scripting bridge, process info, process list, that succeeds,
\* tagged with that strategy's method; strategies that raise or yield
\* nothing before it do not stop the chain.
C6_FirstSuccessWins ==
    res_done =>
        \A k \in Strategies :
            FirstOk(k) =>
                /\ res_result.name = res_outs[k].name
                /\ res_result.pid = res_outs[k].pid
                /\ res_result.method = MethodTags[k]

\* Strategies 1 and 2 raise, strategy 3 reports Foo.
C6_Witness ==
    /\ res_done
    /\ res_outs[1].st = "raise"
    /\ res_outs[2].st = "raise"
    /\ res_outs[3].st = "ok"
    /\ res_outs[3].name = "Foo"
    /\ res_result.name = "Foo"
    /\ res_result.method = "lsappinfo"

AllFail == \A k \in Strategies : res_outs[k].st # "ok"

\* C7: the resolver returns None exactly when every strategy fails and no
\* pid is known; when every strategy fails and a pid is known it returns
\* the degraded record with that pid and method "fallback".
C7_NoneOnlyWithoutPid ==
    res_done =>
        /\ (res_result = NoApp) <=> (AllFail /\ res_cached = 0)
        /\ (AllFail /\ res_cached # 0) =>
              /\ res_result.pid = res_cached
              /\ res_result.method = "fallback"

C7_Witness ==
    /\ res_done
    /\ AllFail
    /\ res_cached # 0
    /\ res_result.pid = res_cached
    /\ res_result.method = "fallback"

(***************************************************************************)
(* Claims about the Event Sink.                                            *)
(***************************************************************************)
InFlight(t) == pc[t] # "idle"

Returned(t) == pc[t] = "idle" /\ cur[t] # 0

Occurrences(s, e) == Cardinality({i \in 1..Len(s) : s[i] = e})

\* C2: for every capacity history_size the history never holds more than
\* history_size events, and it is exactly the last history_size events
\* accepted, in arrival order.
C2_HistoryIsLastN ==
    /\ Len(ui_events) <= history_size
    /\ ui_events = LastN(Arrivals(n_accepted), history_size)

\* The two threads are inside accept() at the same time, each with the
\* event it has just appended, and nothing was accepted since.
TwoConcurrent ==
    /\ InFlight("mouse")
    /\ InFlight("kbd")
    /\ {cur["mouse"], cur["kbd"]} = {n_accepted - 1, n_accepted}

\* The events the history held before the two concurrent calls.
StoredBefore == Range(LastN(Arrivals(n_accepted - 2), history_size))

\* C3 as stated: with capacity at least 2, after two concurrent accept()
\* calls both events are in the history exactly once and every event stored
\* before is still there, exactly once.
C3_NothingLost ==
    (TwoConcurrent /\ history_size >= 2) =>
        \A e \in StoredBefore \cup {cur["mouse"], cur["kbd"]} :
            Occurrences(ui_events, e) = 1

\* C3 amended: with capacity at least 2, after two concurrent accept() calls
\* both events are in the history exactly once, no event is duplicated, and
\* the only events missing are the oldest ones, evicted beyond the capacity:
\* the history is the last history_size events in arrival order.
C3_BothStoredOnce ==
    (TwoConcurrent /\ history_size >= 2) =>
        /\ Occurrences(ui_events, cur["mouse"]) = 1
        /\ Occurrences(ui_events, cur["kbd"]) = 1
        /\ \A e \in EventIds : Occurrences(ui_events, e) <= 1
        /\ \A e \in StoredBefore :
              e \in Range(ui_events) \/ n_accepted - e >= history_size
        /\ ui_events = LastN(Arrivals(n_accepted), history_size)

\* Two concurrent calls on a full history: an old event had to go.
C3_Witness ==
    /\ TwoConcurrent
    /\ history_size >= 2
    /\ n_accepted > history_size
    /\ Len(ui_events) = history_size

IsSep(x) == x.k \in {"sep", "sep_lit"}

\* The records of a JSON timeline are framed: the first record follows the
\* opening bracket directly, every other record follows one separator, and
\* a separator follows a record.
Framed(s) ==
    /\ Len(s) >= 1
    /\ s[1].k = "open"
    /\ \A i \in 2..Len(s) :
          /\ s[i].k = "rec" =>
                IF \E j \in 2..(i - 1) : s[j].k = "rec"
                THEN IsSep(s[i - 1])
                ELSE ~IsSep(s[i - 1])
          /\ IsSep(s[i]) => s[i - 1].k = "rec"

\* C4: with the JSON timeline enabled and two threads in accept(), the file
\* stays well framed: no separator before the first record, exactly one
\* before every later record.
C4_TimelineFramed == timeline_format = "json" => Framed(timeline)

RECURSIVE JoinRecords(_)
JoinRecords(recs) ==
    IF Len(recs) = 0 THEN <<>>
    ELSE IF Len(recs) = 1 THEN recs
    ELSE <<recs[1], Tok("sep")>> \o JoinRecords(Tail(recs))

IsRec(x) == x.k = "rec"

\* The text "[\n" r1 ",\n" r2 ... "\n]\n": a JSON array of the records.
JsonArrayOf(recs) == <<Tok("open")>> \o JoinRecords(recs) \o <<Tok("close")>>

\* C5: once stop() has closed the timeline and no accept() is in flight,
\* the file is one JSON array of the N records appended: the bracket, the
\* records separated by a comma and a newline, the closing bracket.
C5_ValidArrayAfterStop ==
    (/\ timeline_format = "json"
     /\ lifecycle = "stopped"
     /\ \A t \in Threads : ~InFlight(t)
     /\ timeline[Len(timeline)].k = "close") =>
        timeline = JsonArrayOf(SelectSeq(timeline, IsRec))

\* C8: accept() never raises: whatever its callbacks do, the thread returns
\* from it having called every callback registered for the event's type, in
\* registration order, and for a click the re-poll Timer has been started.
C8_AcceptNeverRaises ==
    \A t \in Threads :
        /\ pc[t] # "raised"
        /\ Returned(t) =>
              /\ invoked[t] = callbacks[ev[cur[t]].type]
              /\ ev[cur[t]].type = "click" => cur[t] \in timers

\* A click whose first callback raised, and the second was still called.
C8_Witness ==
    /\ Returned("mouse")
    /\ cb_raised["mouse"]
    /\ Len(invoked["mouse"]) = 2
    /\ cur["mouse"] \in timers

\* C9: a failed write of the raw log, the timeline or the screenshot leaves
\* the event in the history and does not stop its processing: the thread
\* goes on, and when it returns the callbacks have been called.
C9_PersistenceFailureContained ==
    \A t \in Threads :
        persist_failed[t] =>
            /\ cur[t] \in Range(ui_events)
            /\ pc[t] # "raised"
            /\ Returned(t) => invoked[t] = callbacks[ev[cur[t]].type]

\* A write failed for an event, its thread returned, and a later event was
\* accepted into the history.
C9_Witness ==
    \E t \in Threads :
        /\ persist_failed[t]
        /\ Returned(t)
        /\ cur[t] \in Range(ui_events)
        /\ n_accepted > cur[t]
        /\ n_accepted \in Range(ui_events)

\* A click on a resolvable element for which accept() has returned.
ClickReturned ==
    /\ Returned("mouse")
    /\ ev[cur["mouse"]].elem # "none"

\* C10 as stated: after accept() of a click with an element the details
\* hold a screenshot path whenever capture is enabled, and none when it is
\* disabled.
C10_PathWheneverEnabled ==
    ClickReturned =>
        /\ take_screenshots => ev[cur["mouse"]].shot # {}
        /\ ~take_screenshots => ev[cur["mouse"]].shot = {}

\* C10 amended: after accept() of a click with an element the details hold
\* a non-empty screenshot path when capture is enabled and the capture
\* succeeded (a directory is configured and the image was written), and no
\* screenshot key when the capture failed, no directory is configured, or
\* capture is disabled.
C10_PathWhenCaptured ==
    ClickReturned =>
        /\ (take_screenshots /\ cap_ok["mouse"]) =>
              \E p \in ev[cur["mouse"]].shot : p.counter >= 1
        /\ (take_screenshots /\ ~cap_ok["mouse"]) => ev[cur["mouse"]].shot = {}
        /\ ~take_screenshots => ev[cur["mouse"]].shot = {}

C10_Witness ==
    /\ ClickReturned
    /\ take_screenshots
    /\ cap_ok["mouse"]
    /\ ev[cur["mouse"]].shot # {}

(***************************************************************************)
(* Claims about the steps of the UI-State Tracker.                         *)
(***************************************************************************)
\* The step is a poll.
IsPoll == polls' = polls + 1

\* What the resolver answered to the poll this step is.
Resolved == get_frontmost_app_info(StrategiesAt(last_obs'.level), current_app_pid)

WindowChanges(evs) == SelectSeq(evs, LAMBDA e : e.type = "window_change")

\* C11: a poll that observes a new app pid and fails to build the
\* accessibility handle for it leaves the app axis as it was:
\* current_app_pid and current_app both keep their values, so that a later
\* poll sees the change again.
C11_FailedHandleKeepsAppAxis ==
    [][(/\ IsPoll
        /\ Resolved # NoApp
        /\ Resolved.pid # current_app_pid
        /\ last_obs'.ax_app = "raise")
       => (/\ current_app_pid' = current_app_pid
           /\ current_app' = current_app)]_vars

\* The poll this step is compares a window of the accessibility tree with
\* a tracked window.
ComparesWindows ==
    /\ IsPoll
    /\ Resolved # NoApp
    /\ current_app' # 0
    /\ last_obs'.wins = "list"
    /\ current_window # "None"

\* C12: windows are compared by title: a poll whose frontmost window has the
\* title of the tracked window emits no window_change, whatever its size or
\* child count, and a poll whose frontmost window has another title emits
\* exactly one window_change with the old and the new title.
C12_WindowsComparedByTitle ==
    [][ComparesWindows =>
          IF os_attrs[os_front_win].title = os_attrs[current_window].title
          THEN WindowChanges(emitted') = <<>>
          ELSE /\ Len(WindowChanges(emitted')) = 1
               /\ WindowChanges(emitted')[1].old = os_attrs[current_window].title
               /\ WindowChanges(emitted')[1].new = os_attrs[os_front_win].title]_vars

\* C13: an axis that holds a value is never set back to unknown.
C13_NeverBackToUnknown ==
    [][/\ current_app # 0 => current_app' # 0
       /\ current_window # "None" => current_window' # "None"
       /\ current_element # "None" => current_element' # "None"]_vars

(***************************************************************************)
(* Claims about shutdown and the re-poll of a click.                       *)
(***************************************************************************)
\* C15: the write that closes the JSON array is the last write to the
\* timeline: nothing follows the closing bracket.
C15_CloseIsFinalWrite ==
    \A i \in 1..Len(timeline) :
        timeline[i].k = "close" => i = Len(timeline)

\* The threads inside the with block of _update_ui_state.
InBody == {th \in TrackerThreads : upc[th] = "body"}

TrackedState ==
    <<current_app_pid, current_app, current_window, current_element>>

\* C14: two executions of _update_ui_state never overlap, and the tracked
\* state is written only by a thread that holds the lock.
C14_TrackedStateUnderLock ==
    /\ [](Cardinality(InBody) <= 1)
    /\ [][TrackedState' # TrackedState =>
             \E th \in TrackerThreads : lock_owner = th /\ upc[th] = "body"]_vars

\* The poller is inside the block while the Timer thread of a click waits
\* for the lock, and the tracked state has been written.
C14_Witness ==
    /\ upc["poller"] = "body"
    /\ upc["timer"] = "wait"
    /\ lock_owner = "poller"
    /\ current_app_pid # 0

\* The re-polls started and not yet run.
PendingRepolls == timers \ fired

\* C16: the re-poll of a click is debounced: at most one click-triggered
\* re-poll is pending at any time.
C16_OneRepollPending == Cardinality(PendingRepolls) <= 1

\* C17: accept() returns to the mouse monitor without having run the
\* re-poll it scheduled, and every click accepted is eventually followed by
\* its own execution of _update_ui_state: again and again no started
\* re-poll is left that has not run (a re-poll that ran stays run).
C17_RepollRunsLater ==
    /\ [][\A t \in Threads :
            (pc[t] = "notify" /\ pc'[t] = "idle" /\ ev[cur[t]].type = "click")
                => (cur[t] \in timers' /\ cur[t] \notin fired'
                    /\ upc' = upc)]_vars
    /\ []<>(PendingRepolls = {})

\* accept() has returned for a click, and afterwards the Timer thread,
\* not the polling loop, has run _update_ui_state for it.
C17_Witness ==
    /\ Returned("mouse")
    /\ cur["mouse"] \in fired
    /\ upc["timer"] = "idle"
    /\ polls = 0
    /\ current_app_pid # 0

(***************************************************************************)
(* Claims about the source monitors.                                       *)
(***************************************************************************)
\* C18: the mouse monitor emits a click only on a sample where a button is
\* pressed and none was pressed on the sample before, and while a button is
\* held over consecutive samples exactly one click is emitted for the press.
C18_ClickOnPressEdgeOnly ==
    /\ m_emitted => (m_cur /\ ~m_prev)
    /\ m_cur => press_clicks = 1

ModifierChanges == SelectSeq(k_out, LAMBDA e : e.type = "modifier_change")

\* C19: under either mechanism a handler emits modifier_change exactly when
\* the modifier set it observes differs from the recorded one, the event's
\* changes are exactly the modifiers whose value differs, and afterwards
\* the recorded state is the observed one.
C19_ModifierChangeOnDifference ==
    keys > 0 =>
        /\ modifier_state = k_seen
        /\ IF k_seen # k_prev
           THEN /\ Len(ModifierChanges) = 1
                /\ ModifierChanges[1].changes = ChangedModifiers(k_prev, k_seen)
           ELSE ModifierChanges = <<>>

\* C20: every text_selection event carries a non-empty text, and of two
\* consecutive ones the later has a different text and a timestamp at least
\* the dwell threshold after the earlier.
C20_SelectionsDistinctAndSpaced ==
    \A k \in 1..Len(s_events) :
        /\ s_events[k].text # ""
        /\ k > 1 =>
              /\ s_events[k].text # s_events[k - 1].text
              /\ s_events[k].at - s_events[k - 1].at >= ChangeThreshold

\* The ids of the events a file holds, in file order.
IdsInOrder(ids) == \A i, j \in 1..Len(ids) : i < j => ids[i] < ids[j]

LogIds == [i \in 1..Len(rawlog) |-> rawlog[i].id]

TimelineIds ==
    LET recs == SelectSeq(timeline, LAMBDA x : x.id # 0)
    IN  [i \in 1..Len(recs) |-> recs[i].id]

\* C21: any two accepted events stand in the raw log and in the timeline
\* file in the order in which they stand in the history, also when they
\* come from different threads.
C21_FilesInHistoryOrder ==
    /\ IdsInOrder(LogIds)
    /\ IdsInOrder(TimelineIds)

\* Thread th is between entering the body of _update_ui_state and leaving
\* it: its resolver strategies and window queries are in flight
\* (monitor.py:489, 533-546).
QueriesInFlight(th) == upc[th] = "body"

\* C22: while a poll's resolver strategies or scripted window query are in
\* flight the lock is free, so that the accept() of a click can take it.
C22_LockFreeDuringQueries ==
    \A th \in TrackerThreads :
        QueriesInFlight(th) => CanAcquire(lock_owner, "mouse")

\* C23: an unchanged element gets the same identity on recomputation, and
\* two elements that differ in role, title, width, height or child count
\* get different identities (as texts, before hashing).
C23_IdentityStableAndInjective ==
    id_out # <<>> =>
        /\ id_out[3] = id_out[1]
        /\ id_in[1] # id_in[2] => id_out[1] # id_out[2]

\* C24: the file name of a click's screenshot holds the sanitized title of
\* the click's element when that element has a non-empty title, and no
\* title segment when the click has no element.
C24_TitleInFileName ==
    \A i \in EventIds : \A path \in ev[i].shot :
        (path.title # "") <=> (ev[i].elem = "titled")

\* C25: add_callback with an event type the registry does not have does
\* not raise and leaves the registry as it was; the callback is never
\* called for any later event.
C25_UnknownTypeIgnored ==
    /\ ~reg_raised
    /\ reg_arg \in UnknownTypes => registry = reg_before
    /\ reg_called \cap reg_rejected = {}

\* A callback for an unknown type was given after one for a known type,
\* and events have been notified since.
C25_Witness ==
    /\ reg_arg \in UnknownTypes
    /\ reg_rejected # {}
    /\ reg_called # {}
    /\ \E ty \in EventTypes : registry[ty] # <<>>

ClicksStored ==
    {i \in Range(ui_events) : ev[i].type = "click"}

TransitionsStored ==
    {i \in Range(ui_events) :
        ev[i].type \in {"app_change", "window_change", "focus_change"}}

\* C26: start() sets up the event tap only after the listener's setup
\* failed, and it completes whichever mechanisms can be installed: the
\* monitor is then running, with the polling loop and the mouse thread.
C26_TapOnlyAsFallbackAndStartCompletes ==
    /\ "tap" \in Range(kb_tried) =>
          /\ kb_tried = <<"pynput", "tap">>
          /\ "pynput" \notin kb_avail
    /\ k_mech = "tap" => "pynput" \notin kb_avail
    /\ start_done => lifecycle = "running"
    /\ (lifecycle = "running" /\ kb_avail = {}) =>
          /\ start_done
          /\ k_mech = "none"

\* Neither mechanism could be installed, and after start() a click of the
\* mouse thread and a state transition of the polling loop are stored.
C26_Witness ==
    /\ kb_avail = {}
    /\ start_done
    /\ k_mech = "none"
    /\ ClicksStored # {}
    /\ TransitionsStored # {}

\* C27: for a keycode that the key map does not have and that comes with
\* no character, the key_press event and the key-log row both name the key
\* "keycode <n>"; the key name is never empty.
C27_UnmappedKeyNamedByCode ==
    (/\ kd_event # NoKey
     /\ kd_in.keycode \notin KnownCodes
     /\ kd_in.char = "") =>
        /\ kd_event = KeycodeText(kd_in.keycode)
        /\ kd_in.log => kd_row = KeycodeText(kd_in.keycode)

\* C28: run_apple_script never raises; it returns the script's standard
\* output without the white space around it when the script exits with
\* status 0, and None when the script exits with another status, the
\* timeout expires or osascript cannot be started.
C28_AppleScriptNeverRaises ==
    as_out # NotCalled =>
        /\ ~as_out.raised
        /\ as_in.end = "exit0" =>
              /\ ~as_out.none
              /\ as_out.text = Strip(as_in.stdout)
              /\ as_out.text # <<>> =>
                    /\ Head(as_out.text) \notin Whitespace
                    /\ as_out.text[Len(as_out.text)] \notin Whitespace
              /\ \E i, j \in 0..Len(as_in.stdout) :
                    /\ as_in.stdout = [k \in 1..i |-> as_in.stdout[k]]
                          \o as_out.text
                          \o [k \in 1..j |-> as_in.stdout[Len(as_in.stdout) - j + k]]
                    /\ \A k \in 1..i : as_in.stdout[k] \in Whitespace
                    /\ \A k \in 1..j :
                          as_in.stdout[Len(as_in.stdout) - j + k] \in Whitespace
        /\ as_in.end # "exit0" => as_out.none

\* The script ran into the timeout and the call returned None.
C28_Witness ==
    /\ as_in.end = "timeout"
    /\ as_in.stdout # <<>>
    /\ as_out = NoneResult

\* The last poll took the scripted path: the resolver named an application,
\* the tree gave no window and the script gave window names.
ScriptedPoll == last_obs.wins = "script" /\ last_obs.level # 5

\* C29: a poll on the scripted path that obtains the window name the poll
\* before it obtained on that path emits no window_change.
C29_ScriptedPathSilentOnSameName ==
    (ScriptedPoll /\ repeated) => AxisCount("window_change") = 0

\* Threads inside their loop: past a test that found the flag set.
Looping(th) == {i \in LoopThreads : th[i] \in {"update", "sleep", "body"}}

\* C30: whatever start() and stop() calls were made, at most one polling
\* thread and at most one mouse thread are inside their loops, and no
\* thread that was told to stop goes on looping because a later start()
\* set the flag again.
C30_OneLoopThreadEach ==
    /\ Cardinality(Looping(poll_th)) <= 1
    /\ Cardinality(Looping(mouse_th)) <= 1
    /\ resumed = {}

(***************************************************************************)
(* start() on a monitor that was stopped (monitor.py:636-642).  start()    *)
(* tests only self.running, which stop() cleared, so the call goes through *)
(* exactly as the first one did.  The timeline file is not touched: its    *)
(* "[" was written once, by __init__ (monitor.py:86-100).                  *)
(***************************************************************************)
Restart ==
    /\ lifecycle = "stopped"
    /\ restarts < MaxRestarts
    /\ lifecycle' = "running"
    /\ restarts' = restarts + 1
    /\ UNCHANGED <<cfgvars, rsrest, srcvars, lockvars, trkvars, resvars,
                   sinkvars, pc, cur, prefix, budget, envvars>>

RestartInit ==
    /\ history_size = DefaultHistory
    /\ take_screenshots = FALSE
    /\ screenshot_dir = FALSE
    /\ output_file = FALSE
    /\ timeline_file = TRUE
    /\ timeline_format \in {"json", "csv"}
    /\ impl \in {"method", "function"}
    /\ budget = MaxEvents
    /\ lifecycle = "new"
    /\ ProgramStart
    /\ LibIdleBut("rs")
    /\ restarts = 0
    /\ TrackerIdle
    /\ ResolverIdle

RestartNext ==
    \/ Start
    \/ Restart
    \/ StopFlag
    \/ StopClose
    \/ \E t \in Threads : Accept(t)
    \/ \E t \in Threads : TimelinePrefix(t)
    \/ \E t \in Threads : TimelineWrite(t)
    \/ \E t \in Threads : TimelineCount(t)
    \/ \E t \in Threads : TimelineCsv(t)
    \/ \E t \in Threads : Notify(t)

SpecRestart == RestartInit /\ [][RestartNext]_vars

\* Positions of the closing bracket in the timeline file.
Closes == {i \in 1..Len(timeline) : timeline[i].k = "close"}

\* C31: whatever the sequence of start() and stop() calls, the JSON timeline
\* holds at most one closing bracket, and no record is written after it.
C31_OneCloseAndNothingAfter ==
    timeline_format = "json" =>
        /\ Cardinality(Closes) <= 1
        /\ \A i \in Closes : \A j \in (i + 1)..Len(timeline) :
               timeline[j].k # "rec"

(***************************************************************************)
(* self._lock acquisition by acquisition.  _update_ui_state takes the lock *)
(* for its whole body (monitor.py:487) and calls _add_event inside it      *)
(* (monitor.py:519, 554, 593, 615); _add_event takes the lock again for    *)
(* the append and the trim (monitor.py:247-251).  The source monitors call *)
(* _add_event from their own threads.  The monitor has no output file and  *)
(* takes no screenshots, so the rest of _add_event is the callbacks and    *)
(* the Timer of a click (Notify); no callback is registered for the        *)
(* transition events.                                                      *)
(***************************************************************************)
LockThreads == TrackerThreads \cup Threads

\* Leaving a `with self._lock` block: one level down, free at level 0.
Release ==
    /\ rl_count' = rl_count - 1
    /\ lock_owner' = IF rl_count = 1 THEN "none" ELSE lock_owner

\* Events the source monitors added, and their calls still under way.
MonitorAdded ==
    Cardinality({i \in EventIds : rl_by[i] # <<>> /\ rl_by[i][1] \in Threads})

MonitorCalls == Cardinality({t \in Threads : rl_pc[t] # "idle"})

\* monitor.py:628-630: the polling loop calls _update_ui_state.
PollCall ==
    /\ rl_pc["poller"] = "idle"
    /\ polls < MaxLockRuns
    /\ polls' = polls + 1
    /\ rl_run' = [rl_run EXCEPT !["poller"] = polls + 1]
    /\ rl_pc' = [rl_pc EXCEPT !["poller"] = "wait"]
    /\ UNCHANGED <<cfgvars, rlrest, srcvars, resvars, sinkvars, thrvars,
                   envvars, lockvars, rl_count, rl_todo, rl_by,
                   current_app_pid, current_app, current_window,
                   current_element, os_front_pid, os_front_win, os_focus,
                   os_attrs, last_obs, repeated, emitted>>

\* monitor.py:293-295: the Timer of a click runs _update_ui_state.
TimerCall ==
    /\ rl_pc["timer"] = "idle"
    /\ polls < MaxLockRuns
    /\ \E id \in timers \ fired : fired' = fired \cup {id}
    /\ polls' = polls + 1
    /\ rl_run' = [rl_run EXCEPT !["timer"] = polls + 1]
    /\ rl_pc' = [rl_pc EXCEPT !["timer"] = "wait"]
    /\ UNCHANGED <<cfgvars, rlrest, srcvars, resvars, sinkvars, thrvars,
                   envvars, lock_owner, upc, rl_count, rl_todo, rl_by,
                   current_app_pid, current_app, current_window,
                   current_element, os_front_pid, os_front_win, os_focus,
                   os_attrs, last_obs, repeated, emitted>>

\* A source monitor has an event and calls _add_event.
MonitorCall(t) ==
    /\ rl_pc[t] = "idle"
    /\ pc[t] = "idle"
    /\ MonitorAdded + MonitorCalls < budget
    /\ rl_pc' = [rl_pc EXCEPT ![t] = "accept"]
    /\ UNCHANGED <<progvars, rlrest, rl_count, rl_todo, rl_run, rl_by>>

\* `with self._lock` (monitor.py:487 for a thread at "wait", monitor.py:247
\* for a thread at "accept"): the thread goes on once the lock lets it in.
Acquire(th) ==
    /\ rl_pc[th] \in {"wait", "accept"}
    /\ CanAcquire(lock_owner, th)
    /\ lock_owner' = th
    /\ rl_count' = rl_count + 1
    /\ rl_pc' = [rl_pc EXCEPT ![th] = IF rl_pc[th] = "wait" THEN "body"
                                      ELSE "append"]
    /\ UNCHANGED <<cfgvars, rlrest, srcvars, resvars, sinkvars, thrvars,
                   envvars, trkvars, upc, fired, rl_todo, rl_run, rl_by>>

\* monitor.py:488-623 without the _add_event calls: the queries answer and
\* the three axes are compared in turn; the events are added one by one in
\* the steps that follow, in the order the axes made them.
UpdateBody(th) ==
    /\ rl_pc[th] = "body"
    /\ \E wins \in {"list", "script"} :
       \E obs \in {[level |-> 1, ax_app |-> "ok", wins |-> wins,
                    focus |-> "elem", pid |-> os_front_pid,
                    win |-> os_front_win, foc |-> os_focus,
                    attrs |-> os_attrs]} :
       \E r \in {UpdateUiState(obs)} :
          /\ current_app_pid' = r.pid
          /\ current_app' = r.app
          /\ current_window' = r.window
          /\ current_element' = r.element
          /\ emitted' = r.events
          /\ repeated' = (obs = last_obs)
          /\ last_obs' = obs
          /\ rl_todo' = [rl_todo EXCEPT ![th] = r.events]
    /\ rl_pc' = [rl_pc EXCEPT ![th] = "emit"]
    /\ UNCHANGED <<cfgvars, rlrest, srcvars, resvars, sinkvars, thrvars,
                   envvars, lockvars, rl_count, rl_run, rl_by,
                   os_front_pid, os_front_win, os_focus, os_attrs, polls>>

\* The next _add_event call of the run, or the end of the block
\* (monitor.py:623), where the lock is released.
UpdateStep(th) ==
    /\ rl_pc[th] = "emit"
    /\ IF rl_todo[th] = <<>>
       THEN /\ Release
            /\ rl_pc' = [rl_pc EXCEPT ![th] = "idle"]
       ELSE /\ rl_pc' = [rl_pc EXCEPT ![th] = "accept"]
            /\ UNCHANGED <<lock_owner, rl_count>>
    /\ UNCHANGED <<cfgvars, rlrest, srcvars, resvars, sinkvars, thrvars,
                   envvars, trkvars, upc, fired, rl_todo, rl_run, rl_by>>

\* monitor.py:247-251 for an event of the tracker.
UpdateAppend(th) ==
    /\ th \in TrackerThreads
    /\ rl_pc[th] = "append"
    /\ LET e == Head(rl_todo[th])
           id == n_accepted + 1
       IN  /\ ev' = [ev EXCEPT ![id] =
                        [type |-> e.type,
                         elem |-> IF e.element = "" THEN "none" ELSE "titled",
                         shot |-> {}]]
           /\ n_accepted' = id
           /\ ui_events' = AppendTrim(ui_events, id, history_size)
           /\ rl_by' = [rl_by EXCEPT ![id] = <<th, rl_run[th]>>]
    /\ Release
    /\ rl_todo' = [rl_todo EXCEPT ![th] = Tail(@)]
    /\ rl_pc' = [rl_pc EXCEPT ![th] = "emit"]
    /\ UNCHANGED <<cfgvars, rlrest, srcvars, resvars, thrvars, envvars,
                   trkvars, upc, fired, rl_run, screenshot_counter, rawlog,
                   timeline, timeline_entry_count, timers>>

\* monitor.py:247-251 for an event of a source monitor; its thread goes on
\* to the callbacks outside the lock.
MonitorAppend(t) ==
    /\ t \in Threads
    /\ rl_pc[t] = "append"
    /\ \E el \in (IF t = "mouse" THEN Elements ELSE {"none"}) :
          AppendEvent(t, EventTypeOf(t), el)
    /\ rl_by' = [rl_by EXCEPT ![n_accepted + 1] = <<t, 0>>]
    /\ Release
    /\ rl_pc' = [rl_pc EXCEPT ![t] = "idle"]
    /\ UNCHANGED <<cfgvars, rlrest, srcvars, resvars, trkvars, upc, fired,
                   lifecycle, budget, rl_todo, rl_run>>

\* A running monitor with no output file, all of its threads idle.
LockInit ==
    /\ history_size = DefaultHistory
    /\ take_screenshots = FALSE
    /\ screenshot_dir = FALSE
    /\ output_file = FALSE
    /\ timeline_file = FALSE
    /\ timeline_format = "json"
    /\ impl = "method"
    /\ budget = MaxLockEvents
    /\ lifecycle = "running"
    /\ ProgramStart
    /\ LibIdleBut("rl")
    /\ LockIdle
    /\ TrackerIdle
    /\ ResolverIdle

LockNext ==
    \/ PollCall
    \/ TimerCall
    \/ \E t \in Threads : MonitorCall(t)
    \/ \E th \in LockThreads : Acquire(th)
    \/ \E th \in TrackerThreads : UpdateBody(th)
    \/ \E th \in TrackerThreads : UpdateStep(th)
    \/ \E th \in TrackerThreads : UpdateAppend(th)
    \/ \E t \in Threads : MonitorAppend(t)
    \/ \E t \in Threads : Notify(t)

\* Fair scheduling: a thread that can take the lock again and again does
\* take it; a thread holding the lock goes on, its queries answering.
LockFairness ==
    /\ \A th \in LockThreads : SF_vars(Acquire(th))
    /\ \A th \in TrackerThreads :
          WF_vars(UpdateBody(th)) /\ WF_vars(UpdateStep(th))
          /\ WF_vars(UpdateAppend(th))
    /\ \A t \in Threads : WF_vars(MonitorAppend(t))

SpecLock == LockInit /\ [][LockNext]_vars /\ LockFairness

\* C32: no thread is stuck at self._lock: the thread running
\* _update_ui_state takes the lock again inside _add_event, and every
\* thread waiting for the lock, in _add_event or at the head of
\* _update_ui_state, comes to hold it.
C32_WaitingThreadGetsLock ==
    \A th \in LockThreads :
        (rl_pc[th] \in {"wait", "accept"}) ~> (lock_owner = th)

\* The polling thread holds the lock a second time, inside _add_event,
\* while a source monitor waits in its own _add_event.
C32_Witness ==
    /\ lock_owner = "poller"
    /\ rl_count = 2
    /\ rl_pc["poller"] = "append"
    /\ \E t \in Threads : rl_pc[t] = "accept"

\* The axis of a transition event: app, then window, then focused element.
AxisRank(ty) ==
    CASE ty = "app_change" -> 1
      [] ty = "window_change" -> 2
      [] ty = "focus_change" -> 3
      [] OTHER -> 0

\* The thread and run that added the event at position p of the history.
AddedBy(p) == rl_by[ui_events[p]]

\* C33: the events one run of _update_ui_state adds lie in the history in
\* the order app_change, window_change, focus_change, and no event of
\* another thread lies between two of them.
C33_PollEventsInAxisOrder ==
    \A p, q \in 1..Len(ui_events) :
        (p < q /\ AddedBy(p) = AddedBy(q) /\ AddedBy(p)[1] \in TrackerThreads)
        => /\ AxisRank(ev[ui_events[p]].type) < AxisRank(ev[ui_events[q]].type)
           /\ \A m \in p..q : AddedBy(m) = AddedBy(p)

\* One poll added an app_change, a window_change and a focus_change while
\* a source monitor was waiting to add its event, which follows them.
C33_Witness ==
    /\ Len(ui_events) = 4
    /\ AddedBy(1)[1] = "poller"
    /\ AddedBy(3) = AddedBy(1)
    /\ AxisRank(ev[ui_events[1]].type) = 1
    /\ AxisRank(ev[ui_events[2]].type) = 2
    /\ AxisRank(ev[ui_events[3]].type) = 3
    /\ AddedBy(4)[1] \in Threads

(***************************************************************************)
(* The three loops as control flow: _polling_loop (monitor.py:625-634),    *)
(* _track_mouse (mouse_monitor.py:58-137) and _monitor_selection           *)
(* (text_selection.py:98-154).  Each is `while self.running:` around a     *)
(* try block with `except Exception`.  The polling and the mouse loop      *)
(* sleep after the try block; the selection loop sleeps inside it, first,  *)
(* and leaves an iteration early with `continue`.                          *)
(***************************************************************************)
Loops == {"polling", "mouse", "selection"}

\* How the try block of one iteration can end.
TryOutcomes(l) ==
    IF l = "selection" THEN {"done", "continue", "raise"}
    ELSE {"done", "raise"}

\* Where the thread goes when the try block or the except clause is left:
\* to the sleep below it, or straight back to the test of the while.
AfterTry(l) == IF l = "selection" THEN "test" ELSE "sleep"

\* A loop whose try block has no except clause: the exception leaves the
\* function and the thread ends.
OnExceptionPropagate(l) == "ended"

\* except Exception as e: the error is logged (monitor.py:631-632,
\* mouse_monitor.py:133-134, text_selection.py:153-154) and the thread goes
\* on below the try block.
OnException(l) == AfterTry(l)

\* stop() of the monitor that owns the loop clears its flag
\* (monitor.py:667, mouse_monitor.py:153, text_selection.py:170).
LoopStop(l) ==
    /\ lp_flag[l]
    /\ lp_flag' = [lp_flag EXCEPT ![l] = FALSE]
    /\ UNCHANGED <<progvars, lprest, lp_pc, lp_iter, lp_caught, lp_end>>

\* while self.running:
LoopTest(l) ==
    /\ lp_pc[l] = "test"
    /\ IF lp_flag[l]
       THEN /\ lp_iter[l] < MaxIters
            /\ lp_iter' = [lp_iter EXCEPT ![l] = @ + 1]
            /\ lp_pc' = [lp_pc EXCEPT ![l] = "try"]
            /\ UNCHANGED lp_end
       ELSE /\ lp_pc' = [lp_pc EXCEPT ![l] = "ended"]
            /\ lp_end' = [lp_end EXCEPT ![l] = "flag"]
            /\ UNCHANGED lp_iter
    /\ UNCHANGED <<progvars, lprest, lp_flag, lp_caught>>

\* The try block: it runs to its end, is left by `continue`, or something
\* in it raises (a query, the callback, a write).
LoopTry(l) ==
    /\ lp_pc[l] = "try"
    /\ \E out \in TryOutcomes(l) :
          lp_pc' = [lp_pc EXCEPT ![l] = IF out = "raise" THEN "except"
                                        ELSE AfterTry(l)]
    /\ UNCHANGED <<progvars, lprest, lp_flag, lp_iter, lp_caught, lp_end>>

\* The exception reaches the except clause of the loop.
LoopExcept(l) ==
    /\ lp_pc[l] = "except"
    /\ lp_caught' = [lp_caught EXCEPT ![l] = @ + 1]
    /\ \E to \in {OnException(l)} :
          /\ lp_pc' = [lp_pc EXCEPT ![l] = to]
          /\ lp_end' = [lp_end EXCEPT ![l] = IF to = "ended" THEN "raise"
                                             ELSE @]
    /\ UNCHANGED <<progvars, lprest, lp_flag, lp_iter>>

\* time.sleep below the try block (monitor.py:634, mouse_monitor.py:137).
LoopSleep(l) ==
    /\ lp_pc[l] = "sleep"
    /\ lp_pc' = [lp_pc EXCEPT ![l] = "test"]
    /\ UNCHANGED <<progvars, lprest, lp_flag, lp_iter, lp_caught, lp_end>>

LoopsInit ==
    /\ history_size = DefaultHistory
    /\ take_screenshots = FALSE
    /\ screenshot_dir = FALSE
    /\ output_file = FALSE
    /\ timeline_file = FALSE
    /\ timeline_format = "json"
    /\ impl = "method"
    /\ budget = 0
    /\ lifecycle = "running"
    /\ ProgramStart
    /\ LibIdleBut("lp")
    /\ LoopsIdle
    /\ TrackerIdle
    /\ ResolverIdle

LoopsNext ==
    \E l \in Loops :
        \/ LoopStop(l)
        \/ LoopTest(l)
        \/ LoopTry(l)
        \/ LoopExcept(l)
        \/ LoopSleep(l)

SpecLoops == LoopsInit /\ [][LoopsNext]_vars

ClickThreads == {"mouse", "mouse2"}

\* A click with take_screenshots set reaches line 259.
ShotCall(t) ==
    /\ take_screenshots
    /\ sc_pc[t] = "idle"
    /\ sc_clicks < MaxClicks
    /\ sc_clicks' = sc_clicks + 1
    /\ sc_pc' = [sc_pc EXCEPT ![t] = "enter"]
    /\ UNCHANGED <<progvars, screst, sc_tmp, sc_given>>

\* with self._lock:
ShotEnter(t) ==
    /\ sc_pc[t] = "enter"
    /\ CanAcquire(lock_owner, t)
    /\ lock_owner' = t
    /\ rl_count' = rl_count + 1
    /\ sc_pc' = [sc_pc EXCEPT ![t] = "read"]
    /\ UNCHANGED <<cfgvars, sinkvars, thrvars, envvars, trkvars, resvars,
                   srcvars, upc, fired, rl_pc, rl_todo, rl_run, rl_by,
                   shotrest, sc_tmp, sc_given, sc_clicks>>

\* self.screenshot_counter += 1, the read.
ShotRead(t) ==
    /\ sc_pc[t] = "read"
    /\ sc_tmp' = [sc_tmp EXCEPT ![t] = screenshot_counter]
    /\ sc_pc' = [sc_pc EXCEPT ![t] = "write"]
    /\ UNCHANGED <<progvars, screst, sc_given, sc_clicks>>

\* self.screenshot_counter += 1, the write.
ShotWrite(t) ==
    /\ sc_pc[t] = "write"
    /\ screenshot_counter' = sc_tmp[t] + 1
    /\ sc_pc' = [sc_pc EXCEPT ![t] = "take"]
    /\ UNCHANGED <<cfgvars, ui_events, ev, n_accepted, rawlog, timeline,
                   timeline_entry_count, timers, thrvars, envvars, trkvars,
                   resvars, lockvars, srcvars, screst, sc_tmp, sc_given,
                   sc_clicks>>

\* counter = self.screenshot_counter, and the end of the with block.
ShotTake(t) ==
    /\ sc_pc[t] = "take"
    /\ sc_given' = Append(sc_given, screenshot_counter)
    /\ Release
    /\ sc_pc' = [sc_pc EXCEPT ![t] = "idle"]
    /\ UNCHANGED <<cfgvars, sinkvars, thrvars, envvars, trkvars, resvars,
                   srcvars, upc, fired, rl_pc, rl_todo, rl_run, rl_by,
                   shotrest, sc_tmp, sc_clicks>>

ShotsInit ==
    /\ history_size = DefaultHistory
    /\ take_screenshots = TRUE
    /\ screenshot_dir = TRUE
    /\ output_file = FALSE
    /\ timeline_file = FALSE
    /\ timeline_format = "json"
    /\ impl \in {"method", "function"}
    /\ budget = 0
    /\ lifecycle = "running"
    /\ ProgramStart
    /\ LibIdleBut("sc")
    /\ ShotsIdle
    /\ TrackerIdle
    /\ ResolverIdle

ShotsNext ==
    \E t \in ClickThreads :
        \/ ShotCall(t)
        \/ ShotEnter(t)
        \/ ShotRead(t)
        \/ ShotWrite(t)
        \/ ShotTake(t)

SpecShots == ShotsInit /\ [][ShotsNext]_vars

\* C35: the values of the screenshot counter given to clicks rise strictly
\* in the order they are given, so no two clicks, concurrent or not, get
\* the same value.
C35_CounterStrictlyIncreasing ==
    \A i, j \in 1..Len(sc_given) : i < j => sc_given[i] < sc_given[j]

\* Two clicks got their values while the click of the other thread was
\* waiting at the lock or already past it.
C35_Witness ==
    /\ Len(sc_given) = 2
    /\ sc_pc["mouse"] = "enter"
    /\ sc_pc["mouse2"] = "take"

\* C36: a click is emitted only at a sample whose time is more than the
\* timeout after the time of the click emitted before it in the same run
\* of _track_mouse; the event carries that sample's time, so the
\* timestamps of two clicks of one run differ by more than 0.1 s.
C36_ClicksApartByTimeout == m_emitted => m_gap > ClickTimeoutMs

\* The second click of one press: the button stayed down, the samples
\* within the timeout emitted nothing, and the first one past it emitted.
C36_Witness ==
    /\ m_emitted
    /\ press_clicks = 2
    /\ m_gap > ClickTimeoutMs

\* C37: a poll in which all four strategies fail while a pid is tracked,
\* so that the resolver gives the degraded record built from that pid,
\* leaves current_app_pid as it was and emits no app_change.
C37_FallbackPollKeepsApp ==
    [][(polls' = polls + 1 /\ last_obs'.level = 5 /\ current_app_pid # 0)
       => /\ current_app_pid' = current_app_pid
          /\ \A i \in 1..Len(emitted') : emitted'[i].type # "app_change"]_vars

\* A poll on the degraded record has run, and it still emitted an event
\* of another axis.
C37_Witness ==
    /\ last_obs.level = 5
    /\ current_app_pid # 0
    /\ polls = 2
    /\ emitted # <<>>

(***************************************************************************)
(* The queries (monitor.py:694-768), called by the consumer while the      *)
(* tracker polls.  Both run under self._lock, so each is one step.         *)
(***************************************************************************)
\* event_type arguments; "" stands for None and for the empty string, both
\* of which `if event_type:` skips.
QueryTypes == {"", "window_change", "focus_change"}

\* [e for e in events if e.event_type == event_type] (monitor.py:763).
RECURSIVE OfType(_, _, _)
OfType(h, evs, ty) ==
    IF h = <<>> THEN <<>>
    ELSE IF evs[Head(h)].type = ty
         THEN <<Head(h)>> \o OfType(Tail(h), evs, ty)
         ELSE OfType(Tail(h), evs, ty)

\* monitor.py:757-768.  `given` is false for count=None; `if count:` is
\* false for None and for 0.
get_recent_events(h, evs, given, count, event_type) ==
    LET events == IF event_type # "" THEN OfType(h, evs, event_type) ELSE h
    IN  IF given /\ count # 0 THEN SliceLast(events, count) ELSE events

GetRecentEvents ==
    /\ qr_calls < MaxQueries
    /\ qr_calls' = qr_calls + 1
    /\ \E given \in BOOLEAN, count \in 0..MaxCount, ty \in QueryTypes :
          /\ given \/ count = 0
          /\ qr_in' = [op |-> "get_recent_events", history |-> ui_events,
                       given |-> given, count |-> count, event_type |-> ty,
                       level |-> 0]
          /\ qr_events' = get_recent_events(ui_events, ev, given, count, ty)
    /\ UNCHANGED <<progvars, qrrest, qr_state>>

\* A resolver that takes over the pid it found.
ResolverEffectTracking(outs, cached) ==
    LET info == get_frontmost_app_info(outs, cached)
    IN  [info |-> info,
         tracked |-> IF info = NoApp THEN cached ELSE info.pid]

\* What _get_frontmost_app_info gives and what it leaves in
\* current_app_pid: it reads self.current_app_pid (monitor.py:434) and
\* assigns nothing (monitor.py:311-442).
ResolverEffect(outs, cached) ==
    [info |-> get_frontmost_app_info(outs, cached), tracked |-> cached]

\* monitor.py:702-726: state["current_app"].
StateApp(fm, ax) ==
    IF fm # NoApp
    THEN [name |-> fm.name, id |-> fm.pid, method |-> fm.method]
    ELSE IF current_app # 0
         THEN IF ax = "ok"
              THEN [name |-> AppTitle(current_app), id |-> current_app,
                    method |-> "stored"]
              ELSE [name |-> "Unknown", id |-> current_app_pid,
                    method |-> "fallback"]
         ELSE [name |-> "Unknown", id |-> 0, method |-> "none"]

\* monitor.py:728-744: state["current_window"]["title"].
StateWindowTitle(fm, ax, script) ==
    IF current_window # "None"
    THEN IF ax = "ok"
         THEN TitleOr(os_attrs[current_window].title, "Untitled Window")
         ELSE "Unknown"
    ELSE IF fm # NoApp /\ script = "names"
         THEN os_attrs[os_front_win].title
         ELSE "Unknown"

GetCurrentState ==
    /\ qr_calls < MaxQueries
    /\ qr_calls' = qr_calls + 1
    /\ \E level \in Levels, ax \in {"ok", "raise"},
          script \in {"names", "none"} :
       \E r \in {ResolverEffect(StrategiesAt(level), current_app_pid)} :
       \E app \in {StateApp(r.info, ax)} :
          /\ qr_in' = [op |-> "get_current_state", history |-> ui_events,
                       given |-> FALSE, count |-> 0, event_type |-> "",
                       level |-> level]
          /\ qr_state' = [name |-> app.name, id |-> app.id,
                          method |-> app.method,
                          title |-> StateWindowTitle(r.info, ax, script)]
          /\ current_app_pid' = r.tracked
    /\ UNCHANGED <<cfgvars, sinkvars, thrvars, envvars, resvars, lockvars,
                   srcvars, qrrest, qr_events, current_app, current_window,
                   current_element, os_front_pid, os_front_win, os_focus,
                   os_attrs, polls, last_obs, repeated, emitted>>

\* A running monitor with no output file, whose source monitors stay
\* silent: the history is filled by the tracker.
QueriesInit ==
    /\ history_size = DefaultHistory
    /\ take_screenshots = FALSE
    /\ screenshot_dir = FALSE
    /\ output_file = FALSE
    /\ timeline_file = FALSE
    /\ timeline_format = "json"
    /\ impl = "method"
    /\ budget = 0
    /\ lifecycle = "running"
    /\ ProgramStart
    /\ LibIdleBut("qr")
    /\ QueriesIdle
    /\ TrackerIdle
    /\ ResolverIdle

\* One poll between the queries; the window list comes from the
\* accessibility tree or from the script, the resolver answers at once or
\* falls back.
QueryPoll ==
    /\ polls < MaxQueryPolls
    /\ RunUpdate({1, 5}, {"ok"}, {"list", "script"}, {"elem"})
    /\ polls' = polls + 1
    /\ UNCHANGED <<cfgvars, libvars, srcvars, lockvars, resvars,
                   screenshot_counter, rawlog, timeline,
                   timeline_entry_count, timers, thrvars, envvars,
                   os_front_pid, os_front_win, os_focus, os_attrs>>

QueriesNext ==
    \/ QueryPoll
    \/ GetRecentEvents
    \/ GetCurrentState

SpecQueries == QueriesInit /\ [][QueriesNext]_vars

\* The events of type t in the history (all of them when t is not given).
QueryMatches ==
    IF qr_in.event_type # "" THEN OfType(qr_in.history, ev, qr_in.event_type)
    ELSE qr_in.history

\* C38: get_recent_events(count=k, event_type=t) returns the last
\* min(k, m) of the m history events of type t, in arrival order, for
\* every k >= 0, and all m of them when count is not given.
C38_LastKOfType ==
    qr_in.op = "get_recent_events"
    => qr_events = IF qr_in.given THEN LastN(QueryMatches, qr_in.count)
                   ELSE QueryMatches

\* C39: get_current_state() and get_recent_events() change nothing the
\* tracker keeps: a query step leaves current_app_pid, current_app,
\* current_window, current_element and the history as they were and adds
\* no event, although get_current_state() runs the resolver.
C39_QueriesArePure ==
    [][qr_calls' # qr_calls
       => UNCHANGED <<current_app_pid, current_app, current_window,
                      current_element, ui_events, ev, n_accepted>>]_vars

\* get_current_state() ran before the first poll: its resolver found the
\* frontmost application, and no application is tracked yet.
C39_Witness ==
    /\ qr_in.op = "get_current_state"
    /\ qr_state.method = "NSWorkspace"
    /\ qr_state.id # current_app_pid
    /\ current_app_pid = 0
    /\ ui_events = <<>>

=============================================================================
